---- MODULE Spec2Model ----
(***************************************************************************)
(* A model of the WASI preview1 host shim of js-quickjs-wasi-reactor:      *)
(* the descriptor table and syscall dispatcher (wasi.ts), the in-memory    *)
(* filesystem and the device handles (fs-mem.ts), the inode counter        *)
(* (fd.ts).                                                                *)
(*                                                                         *)
(* A JavaScript string is modelled as the sequence of its characters, a    *)
(* Uint8Array as the sequence of its bytes, a Map as the sequence of its   *)
(* [name, ino] entries in insertion order, and an object reference to an   *)
(* Inode as the ino the Inode constructor issued for it (a unique key of   *)
(* the heap "inodes").                                                     *)
(***************************************************************************)
EXTENDS Integers, Sequences, FiniteSets, TLC

VARIABLES
  stdin,      \* the PollableStdin object: buffer, bufferSize, closed, wakeCallback
  pushed,     \* history: the bytes the host pushed before it closed stdin
  consumed,   \* history: the bytes every PollableStdin.fd_read returned, in order
  inodes,     \* the heap of File / Directory objects, keyed by ino
  next_ino,   \* Inode.next_ino
  fds,        \* WASI.fds
  freeFds,    \* WASI.#freeFds
  fault,      \* whether a call has ended in a throw that is not proc_exit
  registered, \* history: the callback the host last passed to onWake
  stdinCall,  \* history: the last call on stdin, its argument, the callbacks it invoked
  pathCall,   \* the string last handed to Path.from, the Path made of it, its to_path_string
  loop,       \* the QuickJS harness: running, exitCode, the runs of runLoop
  clock,      \* what Date and performance.now() read, in nanoseconds
  pollCall,   \* history: the last poll_oneoff, its batch, readings and events
  consoles    \* the two ConsoleStdout objects by ino: decoder, line_buf, sink

vars ==
  <<stdin, pushed, consumed, inodes, next_ino, fds, freeFds, fault, registered,
    stdinCall, pathCall, loop, clock, pollCall, consoles>>

----------------------------------------------------------------------------
(* wasi-defs.ts *)

CLOCKID_REALTIME == 0
CLOCKID_MONOTONIC == 1
ERRNO_SUCCESS == 0
ERRNO_BADF == 8
ERRNO_EXIST == 20
ERRNO_INVAL == 28
ERRNO_ISDIR == 31
ERRNO_NOENT == 44
ERRNO_NOTDIR == 54
ERRNO_NOTEMPTY == 55
ERRNO_NOTSUP == 58
ERRNO_PERM == 63
ERRNO_NOTCAPABLE == 76

FILETYPE_CHARACTER_DEVICE == 2
FILETYPE_DIRECTORY == 3
FILETYPE_REGULAR_FILE == 4

OFLAGS_CREAT == 1
OFLAGS_DIRECTORY == 2
OFLAGS_EXCL == 4
OFLAGS_TRUNC == 8

FDFLAGS_APPEND == 1
RIGHTS_FD_WRITE == 64

EVENTTYPE_CLOCK == 0
EVENTTYPE_FD_READ == 1
EVENTTYPE_FD_WRITE == 2
SUBCLOCKFLAGS_SUBSCRIPTION_CLOCK_ABSTIME == 1
EVENTRWFLAGS_FD_READWRITE_HANGUP == 1

WHENCE_SET == 0
WHENCE_CUR == 1
WHENCE_END == 2

\* The outcome of a call that ended in a JavaScript throw instead of an errno.
THROWN == -1

\* (flags & bit) == bit, for a single-bit mask
HasFlag(flags, bit) == (flags \div bit) % 2 = 1

----------------------------------------------------------------------------
(* Bounds of the model *)

\* the most bytes the host pushes to stdin over a run
MaxPushed == 3
\* the most chunks queued in the stdin buffer at a time
MaxChunks == 2
\* the most File and Directory objects created after construction
MaxCreated == 1
\* the most slots of the descriptor table
MaxFds == 5

\* the most bytes of a file in SpecFile, and the largest cursor
MaxFileSize == 3
\* the most slots of the descriptor table in SpecFile
MaxFileFds == 6

\* the most characters of a path string in SpecPath
MaxPathLen == 4

\* the most subscriptions of a poll_oneoff batch
MaxSubs == 2
\* the largest reading of a clock
MaxClock == 2
\* the shift up to which SpecDrive keeps the readings past MaxClock
DrivePeriod == 2
\* the most bytes the guest writes to stdout and stderr over a run
MaxWritten == 4
\* the most calls of loopOnce and of pollIO counted after stop()
MaxOnces == 2
\* the most runs of runLoop / runLoopSync in progress at a time
MaxRuns == 2
\* the most chunks stdin holds while the loop runs
MaxLoopChunks == 1

----------------------------------------------------------------------------
(* Sequence helpers *)

RECURSIVE Flatten(_)
Flatten(chunks) ==
  IF chunks = <<>> THEN <<>> ELSE Head(chunks) \o Flatten(Tail(chunks))

IsPrefix(s, t) == Len(s) <= Len(t) /\ SubSeq(t, 1, Len(s)) = s

\* Uint8Array.prototype.slice(begin, end) for 0 <= begin
Slice(data, begin, end) ==
  LET e == IF end > Len(data) THEN Len(data) ELSE end
  IN  IF begin >= e THEN <<>> ELSE SubSeq(data, begin + 1, e)

----------------------------------------------------------------------------
(* PollableStdin (fs-mem.ts) *)

\* The callbacks the host may register with onWake; NoCallback is null.
NoCallback == "null"
Callbacks == {"cb1", "cb2"}

\* The chunks the host pushes.
Chunks == {<<>>, <<1>>, <<2, 3>>}

NewPollableStdin ==
  [buffer |-> <<>>, bufferSize |-> 0, closed |-> FALSE, wakeCallback |-> NoCallback]

\* this.wakeCallback?.() : the callbacks the call invokes, in order
InvokeWake(s) == IF s.wakeCallback = NoCallback THEN <<>> ELSE <<s.wakeCallback>>

\* push that does not look at the closed flag
PushIgnoringClose(s, data) ==
  [obj |-> [s EXCEPT !.buffer = Append(@, data),
                     !.bufferSize = @ + Len(data)],
   woke |-> InvokeWake(s)]

PollableStdin_push(s, data) ==
  IF s.closed
    THEN [obj |-> s, woke |-> <<>>]
    ELSE [obj |-> [s EXCEPT !.buffer = Append(@, data),
                            !.bufferSize = @ + Len(data)],
          woke |-> InvokeWake(s)]

\* onWake that keeps the callback it has when handed null
OnWakeIgnoringNull(s, cb) ==
  IF cb = NoCallback THEN s ELSE [s EXCEPT !.wakeCallback = cb]

PollableStdin_close(s) ==
  [obj |-> [s EXCEPT !.closed = TRUE], woke |-> InvokeWake(s)]

PollableStdin_onWake(s, cb) == [s EXCEPT !.wakeCallback = cb]

\* The loop, shifting a chunk it split instead of keeping the rest of it
RECURSIVE ReadLoopDroppingRest(_, _, _, _)
ReadLoopDroppingRest(buffer, bufferSize, remaining, result) ==
  IF remaining > 0 /\ Len(buffer) > 0
    THEN LET chunk == buffer[1]
         IN  IF Len(chunk) <= remaining
               THEN ReadLoopDroppingRest(Tail(buffer), bufferSize - Len(chunk),
                                         remaining - Len(chunk), result \o chunk)
               ELSE ReadLoopDroppingRest(Tail(buffer), bufferSize - Len(chunk), 0,
                                         result \o Slice(chunk, 0, remaining))
    ELSE [buffer |-> buffer, bufferSize |-> bufferSize, data |-> result]

\* The while loop of PollableStdin.fd_read.
RECURSIVE StdinReadLoop(_, _, _, _)
StdinReadLoop(buffer, bufferSize, remaining, result) ==
  IF remaining > 0 /\ Len(buffer) > 0
    THEN LET chunk == buffer[1]
         IN  IF Len(chunk) <= remaining
               THEN StdinReadLoop(Tail(buffer), bufferSize - Len(chunk),
                                  remaining - Len(chunk), result \o chunk)
               ELSE StdinReadLoop(
                      <<Slice(chunk, remaining, Len(chunk))>> \o Tail(buffer),
                      bufferSize - remaining, 0,
                      result \o Slice(chunk, 0, remaining))
    ELSE [buffer |-> buffer, bufferSize |-> bufferSize, data |-> result]

PollableStdin_fd_read(s, size) ==
  IF s.bufferSize = 0
    THEN [obj |-> s, ret |-> 0, data |-> <<>>]
    ELSE LET r == StdinReadLoop(s.buffer, s.bufferSize, size, <<>>)
         IN  [obj |-> [s EXCEPT !.buffer = r.buffer, !.bufferSize = r.bufferSize],
              ret |-> 0, data |-> r.data]

\* fd_poll, flagging the hang-up of a closed stdin that still holds data
PollableStdin_fd_pollHangupOnClose(s, eventtype) ==
  IF eventtype = EVENTTYPE_FD_READ
    THEN [ready |-> s.bufferSize > 0 \/ s.closed,
          nbytes |-> s.bufferSize,
          flags |-> IF s.closed THEN EVENTRWFLAGS_FD_READWRITE_HANGUP ELSE 0]
    ELSE [ready |-> FALSE, nbytes |-> 0, flags |-> 0]

PollableStdin_fd_poll(s, eventtype) ==
  IF eventtype = EVENTTYPE_FD_READ
    THEN LET hasData == s.bufferSize > 0
             isClosed == s.closed
         IN  [ready |-> hasData \/ isClosed,
              nbytes |-> s.bufferSize,
              flags |-> IF isClosed /\ ~hasData
                          THEN EVENTRWFLAGS_FD_READWRITE_HANGUP ELSE 0]
    ELSE [ready |-> FALSE, nbytes |-> 0, flags |-> 0]

----------------------------------------------------------------------------
(* Path (fs-mem.ts) *)

\* The NUL character of a path string.
NUL == "NUL"

\* String.prototype.split("/")
RECURSIVE SplitLoop(_, _, _)
SplitLoop(str, cur, acc) ==
  IF str = <<>> THEN Append(acc, cur)
  ELSE IF Head(str) = "/" THEN SplitLoop(Tail(str), <<>>, Append(acc, cur))
  ELSE SplitLoop(Tail(str), Append(cur, Head(str)), acc)

Split(str) == SplitLoop(str, <<>>, <<>>)

\* Array.prototype.join("/")
RECURSIVE Join(_)
Join(parts) ==
  IF parts = <<>> THEN <<>>
  ELSE IF Len(parts) = 1 THEN parts[1]
  ELSE parts[1] \o <<"/">> \o Join(Tail(parts))

EndsWithSlash(str) == Len(str) > 0 /\ str[Len(str)] = "/"
StartsWithSlash(str) == Len(str) > 0 /\ str[1] = "/"
IncludesNul(str) == \E i \in 1..Len(str) : str[i] = NUL

\* The loop, skipping a ".." that finds the list empty
RECURSIVE PathFromLoopSkippingEscape(_, _)
PathFromLoopSkippingEscape(components, parts) ==
  IF components = <<>> THEN [ok |-> TRUE, parts |-> parts]
  ELSE LET component == Head(components)
       IN  IF component = <<>> \/ component = <<".">>
             THEN PathFromLoopSkippingEscape(Tail(components), parts)
           ELSE IF component = <<".", ".">>
             THEN PathFromLoopSkippingEscape(
                    Tail(components),
                    IF parts = <<>> THEN parts
                                    ELSE SubSeq(parts, 1, Len(parts) - 1))
           ELSE PathFromLoopSkippingEscape(Tail(components),
                                           Append(parts, component))

\* The for loop of Path.from over the components: the parts accumulated,
\* or ok = FALSE when a ".." pops the empty list.
RECURSIVE PathFromLoop(_, _)
PathFromLoop(components, parts) ==
  IF components = <<>> THEN [ok |-> TRUE, parts |-> parts]
  ELSE LET component == Head(components)
       IN  IF component = <<>> \/ component = <<".">>
             THEN PathFromLoop(Tail(components), parts)
           ELSE IF component = <<".", ".">>
             THEN IF parts = <<>>
                    THEN [ok |-> FALSE, parts |-> parts]
                    ELSE PathFromLoop(Tail(components),
                                      SubSeq(parts, 1, Len(parts) - 1))
           ELSE PathFromLoop(Tail(components), Append(parts, component))

\* Path.from: path = null is ok = FALSE.
PathFrom(str) ==
  IF StartsWithSlash(str)
    THEN [ret |-> ERRNO_NOTCAPABLE, ok |-> FALSE, parts |-> <<>>, is_dir |-> FALSE]
  ELSE IF IncludesNul(str)
    THEN [ret |-> ERRNO_INVAL, ok |-> FALSE, parts |-> <<>>, is_dir |-> FALSE]
  ELSE LET r == PathFromLoop(Split(str), <<>>)
       IN  IF r.ok
             THEN [ret |-> ERRNO_SUCCESS, ok |-> TRUE, parts |-> r.parts,
                   is_dir |-> EndsWithSlash(str)]
             ELSE [ret |-> ERRNO_NOTCAPABLE, ok |-> FALSE, parts |-> <<>>,
                   is_dir |-> FALSE]

to_path_string(p) ==
  IF p.is_dir THEN Join(p.parts) \o <<"/">> ELSE Join(p.parts)

\* No string has been handed to Path.from yet.
NoPath == [stage |-> "none", str |-> <<>>, from |-> PathFrom(<<>>), joined |-> <<>>]

----------------------------------------------------------------------------
(* Inode, File, Directory (fd.ts, fs-mem.ts) *)

\* A reference that is null / undefined.
NoInode == 0

\* Inode.root_ino()
root_ino == 0

NewFile(data, readonly) ==
  [kind |-> "File", data |-> data, readonly |-> readonly,
   contents |-> <<>>, parent |-> NoInode]

NewDirectory(contents) ==
  [kind |-> "Directory", data |-> <<>>, readonly |-> FALSE,
   contents |-> contents, parent |-> NoInode]

\* Map.prototype.get / has / set / delete on a Directory's contents
MapGet(contents, name) ==
  IF \E i \in 1..Len(contents) : contents[i].name = name
    THEN contents[CHOOSE i \in 1..Len(contents) : contents[i].name = name].ino
    ELSE NoInode

MapSet(contents, name, ino) ==
  IF \E i \in 1..Len(contents) : contents[i].name = name
    THEN [i \in 1..Len(contents) |->
            IF contents[i].name = name THEN [name |-> name, ino |-> ino]
                                       ELSE contents[i]]
    ELSE Append(contents, [name |-> name, ino |-> ino])

RECURSIVE MapDelete(_, _)
MapDelete(contents, name) ==
  IF contents = <<>> THEN <<>>
  ELSE IF Head(contents).name = name THEN Tail(contents)
  ELSE <<Head(contents)>> \o MapDelete(Tail(contents), name)

\* issue_ino that does not advance the counter
issue_inoAgain(next) == [ino |-> next, next |-> next]

\* Inode.issue_ino: the ino issued, and the counter after it
issue_ino(next) == [ino |-> next, next |-> next + 1]

\* stat().filetype
Filetype(node) ==
  IF node.kind = "Directory" THEN FILETYPE_DIRECTORY ELSE FILETYPE_REGULAR_FILE

\* File.stat / Directory.stat: [ino, filetype, size]
Stat(nodes, ino) ==
  [ino |-> ino, filetype |-> Filetype(nodes[ino]),
   size |-> IF nodes[ino].kind = "File" THEN Len(nodes[ino].data) ELSE 0]

\* Directory.parent_ino
parent_ino(nodes, dir) ==
  IF nodes[dir].parent = NoInode THEN root_ino ELSE nodes[dir].parent

\* The reduce of Directory.get_entry_for_path.
RECURSIVE EntryReduce(_, _, _)
EntryReduce(nodes, acc, parts) ==
  IF parts = <<>> THEN acc
  ELSE IF acc.entry = NoInode THEN acc
  ELSE IF nodes[acc.entry].kind # "Directory"
    THEN [ret |-> ERRNO_NOTDIR, entry |-> NoInode]
  ELSE LET child == MapGet(nodes[acc.entry].contents, Head(parts))
       IN  IF child = NoInode
             THEN [ret |-> ERRNO_NOENT, entry |-> NoInode]
             ELSE EntryReduce(nodes, [ret |-> ERRNO_SUCCESS, entry |-> child],
                              Tail(parts))

\* get_entry_for_path after the reduce: the trailing-slash check on result
get_entry_checked(nodes, path, result) ==
  IF result.entry = NoInode THEN result
  ELSE IF path.is_dir /\ Filetype(nodes[result.entry]) # FILETYPE_DIRECTORY
    THEN [ret |-> ERRNO_NOTDIR, entry |-> NoInode]
  ELSE result

get_entry_for_path(nodes, dir, path) ==
  get_entry_checked(nodes, path,
                    EntryReduce(nodes, [ret |-> ERRNO_SUCCESS, entry |-> dir],
                                path.parts))

\* No parent, no filename, no entry.
NoParent(ret) ==
  [ret |-> ret, parent_entry |-> NoInode, filename |-> <<>>, entry |-> NoInode]

\* get_parent_dir_and_entry_for_path after the lookup of the parent: p is
\* what get_entry_for_path returned for the path without its last part,
\* entry the child of that name in the parent.
get_entry_in_parent(nodes, path, allow_undefined, filename, parent_entry, entry) ==
  IF entry = NoInode
    THEN IF ~allow_undefined THEN NoParent(ERRNO_NOENT)
         ELSE [ret |-> ERRNO_SUCCESS, parent_entry |-> parent_entry,
               filename |-> filename, entry |-> NoInode]
  ELSE IF path.is_dir /\ Filetype(nodes[entry]) # FILETYPE_DIRECTORY
    THEN NoParent(ERRNO_NOTDIR)
  ELSE [ret |-> ERRNO_SUCCESS, parent_entry |-> parent_entry,
        filename |-> filename, entry |-> entry]

\* The lookup of the parent, reporting a missing parent as a bad argument
ParentErrorLost(nodes, path, allow_undefined, filename, p) ==
  IF p.entry = NoInode THEN NoParent(ERRNO_INVAL)
  ELSE IF nodes[p.entry].kind # "Directory" THEN NoParent(ERRNO_NOTDIR)
  ELSE get_entry_in_parent(nodes, path, allow_undefined, filename, p.entry,
                           MapGet(nodes[p.entry].contents, filename))

get_entry_of_parent(nodes, path, allow_undefined, filename, p) ==
  IF p.entry = NoInode THEN NoParent(p.ret)
  ELSE IF nodes[p.entry].kind # "Directory" THEN NoParent(ERRNO_NOTDIR)
  ELSE get_entry_in_parent(nodes, path, allow_undefined, filename, p.entry,
                           MapGet(nodes[p.entry].contents, filename))

get_parent_dir_and_entry_for_path(nodes, dir, path, allow_undefined) ==
  IF path.parts = <<>> THEN NoParent(ERRNO_INVAL)
  ELSE get_entry_of_parent(
         nodes, path, allow_undefined, path.parts[Len(path.parts)],
         get_entry_for_path(nodes, dir,
                            [path EXCEPT !.parts = SubSeq(@, 1, Len(@) - 1)]))

\* Directory.create_entry_for_path on the heap h = [nodes, next_ino]
\* create_entry_for_path with the new File or Directory: ino is what
\* issue_ino issued for it, pe the parent and the name it goes under.
create_entry_in(h, is_dir, pe, ino) ==
  [ret |-> ERRNO_SUCCESS, entry |-> ino,
   h |-> [inodes |->
            [((ino :> (IF is_dir THEN NewDirectory(<<>>)
                                 ELSE NewFile(<<>>, FALSE))) @@ h.inodes)
               EXCEPT ![pe.parent_entry].contents = MapSet(@, pe.filename, ino)],
          next_ino |-> issue_ino(h.next_ino).next]]

\* create_entry_for_path given pf = Path.from(path_str) and, when that is
\* a path, pe = get_parent_dir_and_entry_for_path(pf, true)
create_entry_resolved(h, is_dir, pf, pe) ==
  IF ~pf.ok THEN [ret |-> pf.ret, entry |-> NoInode, h |-> h]
  ELSE IF pe.parent_entry = NoInode \/ pe.filename = <<>>
    THEN [ret |-> pe.ret, entry |-> NoInode, h |-> h]
  ELSE IF pe.entry # NoInode
    THEN [ret |-> ERRNO_EXIST, entry |-> NoInode, h |-> h]
  ELSE create_entry_in(h, is_dir, pe, issue_ino(h.next_ino).ino)

create_entry_for_path(h, dir, path_str, is_dir) ==
  create_entry_resolved(
    h, is_dir, PathFrom(path_str),
    get_parent_dir_and_entry_for_path(h.inodes, dir, PathFrom(path_str), TRUE))

----------------------------------------------------------------------------
(* Open handles: Fd, OpenFile, OpenDirectory, PreopenDirectory (fd.ts,     *)
(* fs-mem.ts).  A handle is [kind, ino, file_pos]: ino is the File or      *)
(* Directory an OpenFile / OpenDirectory wraps (its own ino for a device). *)

\* An absent table slot (undefined), and a null fd_obj.
Undefined == [kind |-> "undefined", ino |-> NoInode, file_pos |-> 0]

OpenFile(file) == [kind |-> "OpenFile", ino |-> file, file_pos |-> 0]
OpenDirectory(dir) == [kind |-> "OpenDirectory", ino |-> dir, file_pos |-> 0]
PreopenDirectory(dir) == [kind |-> "PreopenDirectory", ino |-> dir, file_pos |-> 0]

\* instanceof OpenDirectory
IsOpenDirectory(hd) == hd.kind \in {"OpenDirectory", "PreopenDirectory"}

NoFd(ret, h) == [ret |-> ret, fd_obj |-> Undefined, h |-> h]

\* File.path_open emptying the data before it looks at readonly.
File_path_openTruncatingFirst(h, file, oflags, fs_rights_base, fd_flags) ==
  LET truncated ==
        IF HasFlag(oflags, OFLAGS_TRUNC)
          THEN [h EXCEPT !.inodes[file].data = <<>>] ELSE h
      node == h.inodes[file]
      opened == OpenFile(file)
  IN  IF node.readonly /\ (HasFlag(fs_rights_base, RIGHTS_FD_WRITE)
                            \/ HasFlag(oflags, OFLAGS_TRUNC))
        THEN NoFd(ERRNO_PERM, truncated)
      ELSE [ret |-> ERRNO_SUCCESS,
            fd_obj |-> IF HasFlag(fd_flags, FDFLAGS_APPEND)
                         THEN [opened EXCEPT !.file_pos =
                                 Len(truncated.inodes[file].data)]
                         ELSE opened,
            h |-> truncated]

File_path_open(h, file, oflags, fs_rights_base, fd_flags) ==
  LET node == h.inodes[file]
  IN  IF node.readonly /\ HasFlag(fs_rights_base, RIGHTS_FD_WRITE)
        THEN NoFd(ERRNO_PERM, h)
      ELSE IF HasFlag(oflags, OFLAGS_TRUNC) /\ node.readonly
        THEN NoFd(ERRNO_PERM, h)
      ELSE
        LET truncated ==
              IF HasFlag(oflags, OFLAGS_TRUNC)
                THEN [h EXCEPT !.inodes[file].data = <<>>] ELSE h
            opened == OpenFile(file)
        IN  [ret |-> ERRNO_SUCCESS,
             fd_obj |-> IF HasFlag(fd_flags, FDFLAGS_APPEND)
                          THEN [opened EXCEPT !.file_pos =
                                  Len(truncated.inodes[file].data)]
                          ELSE opened,
             h |-> truncated]

Directory_path_open(h, dir, oflags, fs_rights_base, fd_flags) ==
  [ret |-> ERRNO_SUCCESS, fd_obj |-> OpenDirectory(dir), h |-> h]

\* OpenDirectory.path_open from the O_DIRECTORY check on (lines 256-262)
OpenEntry(h, entry, oflags, fs_rights_base, fd_flags) ==
  IF HasFlag(oflags, OFLAGS_DIRECTORY)
     /\ Filetype(h.inodes[entry]) # FILETYPE_DIRECTORY
    THEN NoFd(ERRNO_NOTDIR, h)
  ELSE IF h.inodes[entry].kind = "Directory"
    THEN Directory_path_open(h, entry, oflags, fs_rights_base, fd_flags)
  ELSE File_path_open(h, entry, oflags, fs_rights_base, fd_flags)

\* OpenDirectory.path_open with c, what create_entry_for_path returned
\* (lines 241-249)
OpenCreated(c, oflags, fs_rights_base, fd_flags) ==
  IF c.entry = NoInode THEN NoFd(c.ret, c.h)
  ELSE OpenEntry(c.h, c.entry, oflags, fs_rights_base, fd_flags)

\* OpenDirectory.path_open given pf = Path.from(path_str) and, when that is
\* a path, lk = get_entry_for_path(pf)
OpenResolved(h, dir, path_str, oflags, fs_rights_base, fd_flags, pf, lk) ==
  IF ~pf.ok THEN NoFd(pf.ret, h)
  ELSE IF lk.entry = NoInode
    THEN IF lk.ret # ERRNO_NOENT THEN NoFd(lk.ret, h)
         ELSE IF HasFlag(oflags, OFLAGS_CREAT)
           THEN OpenCreated(
                  create_entry_for_path(h, dir, path_str,
                                        HasFlag(oflags, OFLAGS_DIRECTORY)),
                  oflags, fs_rights_base, fd_flags)
         ELSE NoFd(ERRNO_NOENT, h)
  ELSE IF HasFlag(oflags, OFLAGS_EXCL) THEN NoFd(ERRNO_EXIST, h)
  ELSE OpenEntry(h, lk.entry, oflags, fs_rights_base, fd_flags)

OpenDirectory_path_open(h, dir, path_str, oflags, fs_rights_base, fd_flags) ==
  OpenResolved(h, dir, path_str, oflags, fs_rights_base, fd_flags,
               PathFrom(path_str),
               get_entry_for_path(h.inodes, dir, PathFrom(path_str)))

\* The ret of what path_open returned, and the heap after it.
RetOf(r) == [ret |-> r.ret, h |-> r.h]

OpenDirectory_path_create_directory(h, dir, path_str) ==
  RetOf(OpenDirectory_path_open(h, dir, path_str,
                                OFLAGS_CREAT + OFLAGS_DIRECTORY, 0, 0))

\* OpenDirectory.path_lookup given pf = Path.from(path_str) and, when that
\* is a path, e = get_entry_for_path(pf)
LookupResolved(pf, e) ==
  IF ~pf.ok THEN [ret |-> pf.ret, inode_obj |-> NoInode]
  ELSE IF e.entry = NoInode THEN [ret |-> e.ret, inode_obj |-> NoInode]
  ELSE [ret |-> ERRNO_SUCCESS, inode_obj |-> e.entry]

OpenDirectory_path_lookup(nodes, dir, path_str) ==
  LookupResolved(PathFrom(path_str),
                 get_entry_for_path(nodes, dir, PathFrom(path_str)))

\* OpenDirectory.path_filestat_get with r, what path_lookup returned
FilestatOf(nodes, r) ==
  IF r.inode_obj = NoInode THEN [ret |-> r.ret, filestat |-> <<>>]
  ELSE [ret |-> 0, filestat |-> Stat(nodes, r.inode_obj)]

OpenDirectory_path_filestat_get(nodes, dir, path_str) ==
  FilestatOf(nodes, OpenDirectory_path_lookup(nodes, dir, path_str))

\* The rules of path_link for an entry already at the destination
\* (lines 296-317): the errno, or success to go on.
LinkOnto(nodes, inode, entry, allow_dir) ==
  LET source_is_dir == Filetype(nodes[inode]) = FILETYPE_DIRECTORY
      target_is_dir == Filetype(nodes[entry]) = FILETYPE_DIRECTORY
  IN  IF source_is_dir /\ target_is_dir
        THEN IF allow_dir /\ nodes[entry].kind = "Directory"
               THEN IF Len(nodes[entry].contents) # 0
                      THEN ERRNO_NOTEMPTY ELSE ERRNO_SUCCESS
               ELSE ERRNO_EXIST
      ELSE IF source_is_dir /\ ~target_is_dir THEN ERRNO_NOTDIR
      ELSE IF ~source_is_dir /\ target_is_dir THEN ERRNO_ISDIR
      ELSE IF Filetype(nodes[inode]) # FILETYPE_REGULAR_FILE
              \/ Filetype(nodes[entry]) # FILETYPE_REGULAR_FILE
        THEN ERRNO_EXIST
      ELSE ERRNO_SUCCESS

\* path_link letting a directory be linked whatever allow_dir
LinkCheckedAllowingDirectories(nodes, inode, allow_dir, pe, onto) ==
  IF onto # ERRNO_SUCCESS THEN [ret |-> onto, nodes |-> nodes]
  ELSE [ret |-> ERRNO_SUCCESS,
        nodes |-> [nodes EXCEPT ![pe.parent_entry].contents =
                     MapSet(@, pe.filename, inode)]]

\* OpenDirectory.path_link from the rules for an existing destination on
\* (lines 296-324): onto is what they say, success when there is none.
LinkChecked(nodes, inode, allow_dir, pe, onto) ==
  IF onto # ERRNO_SUCCESS THEN [ret |-> onto, nodes |-> nodes]
  ELSE IF ~allow_dir /\ Filetype(nodes[inode]) = FILETYPE_DIRECTORY
    THEN [ret |-> ERRNO_PERM, nodes |-> nodes]
  ELSE [ret |-> ERRNO_SUCCESS,
        nodes |-> [nodes EXCEPT ![pe.parent_entry].contents =
                     MapSet(@, pe.filename, inode)]]

\* OpenDirectory.path_link given pf = Path.from(path_str) and, when that is
\* a path, pe = get_parent_dir_and_entry_for_path(pf, true)
LinkResolved(nodes, inode, allow_dir, pf, pe) ==
  IF ~pf.ok THEN [ret |-> pf.ret, nodes |-> nodes]
  ELSE IF pf.is_dir THEN [ret |-> ERRNO_NOENT, nodes |-> nodes]
  ELSE IF pe.parent_entry = NoInode \/ pe.filename = <<>>
    THEN [ret |-> pe.ret, nodes |-> nodes]
  ELSE LinkChecked(nodes, inode, allow_dir, pe,
                   IF pe.entry # NoInode
                     THEN LinkOnto(nodes, inode, pe.entry, allow_dir)
                     ELSE ERRNO_SUCCESS)

OpenDirectory_path_link(nodes, dir, path_str, inode, allow_dir) ==
  LinkResolved(
    nodes, inode, allow_dir, PathFrom(path_str),
    get_parent_dir_and_entry_for_path(nodes, dir, PathFrom(path_str), TRUE))

\* OpenDirectory.path_unlink given pf = Path.from(path_str) and, when
\* that is a path, pe = get_parent_dir_and_entry_for_path(pf, true)
UnlinkResolved(nodes, pf, pe) ==
  IF ~pf.ok THEN [ret |-> pf.ret, inode_obj |-> NoInode, nodes |-> nodes]
  ELSE IF pe.parent_entry = NoInode \/ pe.filename = <<>>
    THEN [ret |-> pe.ret, inode_obj |-> NoInode, nodes |-> nodes]
  ELSE IF pe.entry = NoInode
    THEN [ret |-> ERRNO_NOENT, inode_obj |-> NoInode, nodes |-> nodes]
  ELSE [ret |-> ERRNO_SUCCESS, inode_obj |-> pe.entry,
        nodes |-> [nodes EXCEPT ![pe.parent_entry].contents =
                     MapDelete(@, pe.filename)]]

OpenDirectory_path_unlink(nodes, dir, path_str) ==
  UnlinkResolved(
    nodes, PathFrom(path_str),
    get_parent_dir_and_entry_for_path(nodes, dir, PathFrom(path_str), TRUE))

\* path_unlink_file that frees the bytes of the file it unlinks
UnlinkFileDroppingData(nodes, dir, path_str) ==
  LET pf == PathFrom(path_str)
      pe == get_parent_dir_and_entry_for_path(nodes, dir, pf, FALSE)
  IN  IF ~pf.ok THEN [ret |-> pf.ret, nodes |-> nodes]
      ELSE IF pe.parent_entry = NoInode \/ pe.filename = <<>>
              \/ pe.entry = NoInode
        THEN [ret |-> pe.ret, nodes |-> nodes]
      ELSE IF Filetype(nodes[pe.entry]) = FILETYPE_DIRECTORY
        THEN [ret |-> ERRNO_ISDIR, nodes |-> nodes]
      ELSE [ret |-> ERRNO_SUCCESS,
            nodes |-> [nodes EXCEPT ![pe.parent_entry].contents =
                                      MapDelete(@, pe.filename),
                                    ![pe.entry].data = <<>>]]

\* OpenDirectory.path_unlink_file given pf = Path.from(path_str) and,
\* when that is a path, pe = get_parent_dir_and_entry_for_path(pf, false)
UnlinkFileResolved(nodes, pf, pe) ==
  IF ~pf.ok THEN [ret |-> pf.ret, nodes |-> nodes]
  ELSE IF pe.parent_entry = NoInode \/ pe.filename = <<>> \/ pe.entry = NoInode
    THEN [ret |-> pe.ret, nodes |-> nodes]
  ELSE IF Filetype(nodes[pe.entry]) = FILETYPE_DIRECTORY
    THEN [ret |-> ERRNO_ISDIR, nodes |-> nodes]
  ELSE [ret |-> ERRNO_SUCCESS,
        nodes |-> [nodes EXCEPT ![pe.parent_entry].contents =
                     MapDelete(@, pe.filename)]]

OpenDirectory_path_unlink_file(nodes, dir, path_str) ==
  UnlinkFileResolved(
    nodes, PathFrom(path_str),
    get_parent_dir_and_entry_for_path(nodes, dir, PathFrom(path_str), FALSE))

\* path_remove_directory that does not look into the directory it removes
RemoveDirectoryUnchecked(nodes, pf, pe) ==
  IF ~pf.ok THEN [ret |-> pf.ret, nodes |-> nodes]
  ELSE IF pe.parent_entry = NoInode \/ pe.filename = <<>> \/ pe.entry = NoInode
    THEN [ret |-> pe.ret, nodes |-> nodes]
  ELSE IF nodes[pe.entry].kind # "Directory"
    THEN [ret |-> ERRNO_NOTDIR, nodes |-> nodes]
  ELSE [ret |-> ERRNO_SUCCESS,
        nodes |-> [nodes EXCEPT ![pe.parent_entry].contents =
                     MapDelete(@, pe.filename)]]

\* OpenDirectory.path_remove_directory given pf = Path.from(path_str) and,
\* when that is a path, pe = get_parent_dir_and_entry_for_path(pf, false)
RemoveDirectoryResolved(nodes, pf, pe) ==
  IF ~pf.ok THEN [ret |-> pf.ret, nodes |-> nodes]
  ELSE IF pe.parent_entry = NoInode \/ pe.filename = <<>> \/ pe.entry = NoInode
    THEN [ret |-> pe.ret, nodes |-> nodes]
  ELSE IF nodes[pe.entry].kind # "Directory"
          \/ Filetype(nodes[pe.entry]) # FILETYPE_DIRECTORY
    THEN [ret |-> ERRNO_NOTDIR, nodes |-> nodes]
  ELSE IF Len(nodes[pe.entry].contents) # 0
    THEN [ret |-> ERRNO_NOTEMPTY, nodes |-> nodes]
  ELSE [ret |-> ERRNO_SUCCESS,
        nodes |-> [nodes EXCEPT ![pe.parent_entry].contents =
                     MapDelete(@, pe.filename)]]

OpenDirectory_path_remove_directory(nodes, dir, path_str) ==
  RemoveDirectoryResolved(
    nodes, PathFrom(path_str),
    get_parent_dir_and_entry_for_path(nodes, dir, PathFrom(path_str), FALSE))

\* A Dirent: [d_next, d_ino, d_name, d_type]; null is d_name = <<>>.
NoDirent == [d_next |-> 0, d_ino |-> 0, d_name |-> <<>>, d_type |-> 0]

\* fd_readdir_single that takes the child at cookie - 1 of the entries
ReaddirSingleOffByOne(nodes, dir, cookie) ==
  IF cookie = 0
    THEN [ret |-> ERRNO_SUCCESS,
          dirent |-> [d_next |-> 1, d_ino |-> dir, d_name |-> <<".">>,
                      d_type |-> FILETYPE_DIRECTORY]]
  ELSE IF cookie = 1
    THEN [ret |-> ERRNO_SUCCESS,
          dirent |-> [d_next |-> 2, d_ino |-> parent_ino(nodes, dir),
                      d_name |-> <<".", ".">>, d_type |-> FILETYPE_DIRECTORY]]
  ELSE IF cookie >= Len(nodes[dir].contents) + 1
    THEN [ret |-> 0, dirent |-> NoDirent]
  ELSE LET e == nodes[dir].contents[cookie - 1 + 1]
       IN  [ret |-> 0,
            dirent |-> [d_next |-> cookie + 1, d_ino |-> e.ino,
                        d_name |-> e.name,
                        d_type |-> Filetype(nodes[e.ino])]]

OpenDirectory_fd_readdir_single(nodes, dir, cookie) ==
  IF cookie = 0
    THEN [ret |-> ERRNO_SUCCESS,
          dirent |-> [d_next |-> 1, d_ino |-> dir, d_name |-> <<".">>,
                      d_type |-> FILETYPE_DIRECTORY]]
  ELSE IF cookie = 1
    THEN [ret |-> ERRNO_SUCCESS,
          dirent |-> [d_next |-> 2, d_ino |-> parent_ino(nodes, dir),
                      d_name |-> <<".", ".">>, d_type |-> FILETYPE_DIRECTORY]]
  ELSE IF cookie >= Len(nodes[dir].contents) + 2
    THEN [ret |-> 0, dirent |-> NoDirent]
  ELSE LET e == nodes[dir].contents[cookie - 2 + 1]
       IN  [ret |-> 0,
            dirent |-> [d_next |-> cookie + 1, d_ino |-> e.ino,
                        d_name |-> e.name,
                        d_type |-> Filetype(nodes[e.ino])]]

\* A write that appends to the file whatever the position is
WriteAppending(old, pos, data) == old \o data

\* Uint8Array.prototype.set(data, pos) on a buffer grown, zero-filled, to
\* hold it (OpenFile.fd_write / fd_pwrite, lines 91-99)
WriteAt(old, pos, data) ==
  LET newlen == IF pos + Len(data) > Len(old) THEN pos + Len(data) ELSE Len(old)
  IN  [i \in 1..newlen |->
         IF i > pos /\ i <= pos + Len(data) THEN data[i - pos]
         ELSE IF i <= Len(old) THEN old[i] ELSE 0]

OpenFile_fd_read(nodes, hd, size) ==
  LET slice == Slice(nodes[hd.ino].data, hd.file_pos, hd.file_pos + size)
  IN  [ret |-> 0, data |-> slice,
       hd |-> [hd EXCEPT !.file_pos = @ + Len(slice)]]

OpenFile_fd_write(nodes, hd, data) ==
  IF nodes[hd.ino].readonly
    THEN [ret |-> ERRNO_BADF, nwritten |-> 0, hd |-> hd, nodes |-> nodes]
    ELSE [ret |-> 0, nwritten |-> Len(data),
          hd |-> [hd EXCEPT !.file_pos = @ + Len(data)],
          nodes |-> [nodes EXCEPT ![hd.ino].data = WriteAt(@, hd.file_pos, data)]]

OpenFile_fd_pwrite(nodes, hd, data, offset) ==
  IF nodes[hd.ino].readonly
    THEN [ret |-> ERRNO_BADF, nwritten |-> 0, nodes |-> nodes]
    ELSE [ret |-> 0, nwritten |-> Len(data),
          nodes |-> [nodes EXCEPT ![hd.ino].data = WriteAt(@, offset, data)]]

OpenFile_fd_pread(nodes, hd, size, offset) ==
  [ret |-> 0, data |-> Slice(nodes[hd.ino].data, offset, offset + size)]

\* OpenFile.fd_seek storing calculated_offset before it tests it
SeekToUnchecked(hd, calculated_offset) ==
  IF calculated_offset < 0
    THEN [ret |-> ERRNO_INVAL, offset |-> 0,
          hd |-> [hd EXCEPT !.file_pos = calculated_offset]]
    ELSE [ret |-> 0, offset |-> calculated_offset,
          hd |-> [hd EXCEPT !.file_pos = calculated_offset]]

\* OpenFile.fd_seek from the check of calculated_offset on (lines 76-81)
SeekTo(hd, calculated_offset) ==
  IF calculated_offset < 0
    THEN [ret |-> ERRNO_INVAL, offset |-> 0, hd |-> hd]
    ELSE [ret |-> 0, offset |-> calculated_offset,
          hd |-> [hd EXCEPT !.file_pos = calculated_offset]]

OpenFile_fd_seek(nodes, hd, offset, whence) ==
  IF whence = WHENCE_SET THEN SeekTo(hd, offset)
  ELSE IF whence = WHENCE_CUR THEN SeekTo(hd, hd.file_pos + offset)
  ELSE IF whence = WHENCE_END THEN SeekTo(hd, Len(nodes[hd.ino].data) + offset)
  ELSE [ret |-> ERRNO_INVAL, offset |-> 0, hd |-> hd]

OpenFile_fd_filestat_get(nodes, hd) ==
  [ret |-> 0, filestat |-> Stat(nodes, hd.ino)]

\* new Uint8Array(size) with the bytes of data set from index 0
Grown(data, size) ==
  [i \in 1..size |-> IF i <= Len(data) THEN data[i] ELSE 0]

OpenFile_fd_allocate(nodes, hd, offset, len) ==
  IF Len(nodes[hd.ino].data) > offset + len
    THEN [ret |-> ERRNO_SUCCESS, nodes |-> nodes]
    ELSE [ret |-> ERRNO_SUCCESS,
          nodes |-> [nodes EXCEPT ![hd.ino].data = Grown(@, offset + len)]]

OpenFile_fd_filestat_set_size(nodes, hd, size) ==
  IF Len(nodes[hd.ino].data) > size
    THEN [ret |-> ERRNO_SUCCESS,
          nodes |-> [nodes EXCEPT ![hd.ino].data = SubSeq(@, 1, size)]]
    ELSE [ret |-> ERRNO_SUCCESS,
          nodes |-> [nodes EXCEPT ![hd.ino].data = Grown(@, size)]]

----------------------------------------------------------------------------
(* WASI (wasi.ts): the descriptor table and the import functions.  The     *)
(* state a call works on is w = [fds, freeFds, inodes, next_ino, stdin];   *)
(* a call returns the state after it, its errno and what it wrote to the   *)
(* guest's memory.  Slot fd of the table is fds[fd + 1].                   *)

\* this.fds[fd]
FdAt(w, fd) ==
  IF fd >= 0 /\ fd < Len(w.fds) THEN w.fds[fd + 1] ELSE Undefined

\* this.fds[fd] != undefined
Live(w, fd) == FdAt(w, fd) # Undefined

Heap(w) == [inodes |-> w.inodes, next_ino |-> w.next_ino]
WithHeap(w, h) == [w EXCEPT !.inodes = h.inodes, !.next_ino = h.next_ino]

\* Fd.fd_close, which no handle overrides
Fd_fd_close(hd) == 0

\* fd_close that frees the index and leaves the handle in its slot
CloseKeepingSlot(w, fd) ==
  IF Live(w, fd)
    THEN [w |-> [w EXCEPT !.freeFds = Append(@, fd)], ret |-> Fd_fd_close(FdAt(w, fd))]
    ELSE [w |-> w, ret |-> ERRNO_BADF]

wasi_fd_close(w, fd) ==
  IF Live(w, fd)
    THEN [w |-> [w EXCEPT !.fds[fd + 1] = Undefined,
                          !.freeFds = Append(@, fd)],
          ret |-> Fd_fd_close(FdAt(w, fd))]
    ELSE [w |-> w, ret |-> ERRNO_BADF]

\* fd_renumber leaving the index fd out of the free list.
wasi_fd_renumberLosingTheSlot(w, fd, to) ==
  IF Live(w, fd) /\ Live(w, to)
    THEN IF Fd_fd_close(FdAt(w, to)) # 0
           THEN [w |-> w, ret |-> Fd_fd_close(FdAt(w, to))]
           ELSE LET moved == [w.fds EXCEPT ![to + 1] = w.fds[fd + 1]]
                IN  [w |-> [w EXCEPT !.fds = [moved EXCEPT ![fd + 1] = Undefined]],
                     ret |-> 0]
    ELSE [w |-> w, ret |-> ERRNO_BADF]

wasi_fd_renumber(w, fd, to) ==
  IF Live(w, fd) /\ Live(w, to)
    THEN IF Fd_fd_close(FdAt(w, to)) # 0
           THEN [w |-> w, ret |-> Fd_fd_close(FdAt(w, to))]
           ELSE LET moved == [w.fds EXCEPT ![to + 1] = w.fds[fd + 1]]
                IN  [w |-> [w EXCEPT !.fds = [moved EXCEPT ![fd + 1] = Undefined],
                                     !.freeFds = Append(@, fd)],
                     ret |-> 0]
    ELSE [w |-> w, ret |-> ERRNO_BADF]

\* The handle's path_open: OpenDirectory's, or the default of Fd.
Fd_path_open(w, hd, path_str, oflags, fs_rights_base, fd_flags) ==
  IF IsOpenDirectory(hd)
    THEN OpenDirectory_path_open(Heap(w), hd.ino, path_str, oflags,
                                 fs_rights_base, fd_flags)
    ELSE NoFd(ERRNO_NOTDIR, Heap(w))

\* The allocation of a descriptor for fd_obj (lines 678-686).
AllocateFd(w, fd_obj) ==
  IF Len(w.freeFds) > 0
    THEN LET fd == w.freeFds[Len(w.freeFds)]
         IN  [w |-> [w EXCEPT !.freeFds = SubSeq(@, 1, Len(@) - 1),
                              !.fds[fd + 1] = fd_obj],
              opened_fd |-> fd]
    ELSE [w |-> [w EXCEPT !.fds = Append(@, fd_obj)],
          opened_fd |-> Len(w.fds)]

\* No descriptor was opened.
NoOpenedFd == -1

\* path_open with a, the descriptor allocated for the handle
PathOpened(a) == [w |-> a.w, ret |-> 0, opened_fd |-> a.opened_fd]

\* path_open taking a slot of the table before it looks at ret.
PathOpenReturnedTakingASlot(w, r) ==
  IF r.ret # 0
    THEN [w |-> AllocateFd(WithHeap(w, r.h), Undefined).w, ret |-> r.ret,
          opened_fd |-> NoOpenedFd]
    ELSE PathOpened(AllocateFd(WithHeap(w, r.h), r.fd_obj))

\* path_open with r, what the handle's path_open returned (lines 675-688)
PathOpenReturned(w, r) ==
  IF r.ret # 0
    THEN [w |-> WithHeap(w, r.h), ret |-> r.ret, opened_fd |-> NoOpenedFd]
    ELSE PathOpened(AllocateFd(WithHeap(w, r.h), r.fd_obj))

wasi_path_open(w, fd, path_str, oflags, fs_rights_base, fd_flags) ==
  IF Live(w, fd)
    THEN PathOpenReturned(w, Fd_path_open(w, FdAt(w, fd), path_str, oflags,
                                          fs_rights_base, fd_flags))
    ELSE [w |-> w, ret |-> ERRNO_BADF, opened_fd |-> NoOpenedFd]

\* The state after a call of the handle that returned r = [ret, h] or
\* r = [ret, nodes], and the errno the import function returns for it.
ReturnedHeap(w, r) == [w |-> WithHeap(w, r.h), ret |-> r.ret]
ReturnedNodes(w, r) == [w |-> [w EXCEPT !.inodes = r.nodes], ret |-> r.ret]

wasi_path_create_directory(w, fd, path_str) ==
  IF Live(w, fd)
    THEN IF IsOpenDirectory(FdAt(w, fd))
           THEN ReturnedHeap(w, OpenDirectory_path_create_directory(
                                  Heap(w), FdAt(w, fd).ino, path_str))
           ELSE [w |-> w, ret |-> ERRNO_NOTSUP]
    ELSE [w |-> w, ret |-> ERRNO_BADF]

\* path_filestat_get with r, what the handle's path_filestat_get returned
ReturnedFilestat(w, r) == [w |-> w, ret |-> r.ret, filestat |-> r.filestat]

wasi_path_filestat_get(w, fd, path_str) ==
  IF Live(w, fd)
    THEN IF IsOpenDirectory(FdAt(w, fd))
           THEN ReturnedFilestat(w, OpenDirectory_path_filestat_get(
                                      w.inodes, FdAt(w, fd).ino, path_str))
           ELSE [w |-> w, ret |-> ERRNO_NOTSUP, filestat |-> <<>>]
    ELSE [w |-> w, ret |-> ERRNO_BADF, filestat |-> <<>>]

\* The handle's path_link / path_unlink / path_lookup: OpenDirectory's, or
\* the defaults of Fd.
Fd_path_link(nodes, hd, path_str, inode, allow_dir) ==
  IF IsOpenDirectory(hd)
    THEN OpenDirectory_path_link(nodes, hd.ino, path_str, inode, allow_dir)
    ELSE [ret |-> ERRNO_NOTSUP, nodes |-> nodes]

Fd_path_unlink(nodes, hd, path_str) ==
  IF IsOpenDirectory(hd)
    THEN OpenDirectory_path_unlink(nodes, hd.ino, path_str)
    ELSE [ret |-> ERRNO_NOTSUP, inode_obj |-> NoInode, nodes |-> nodes]

Fd_path_lookup(nodes, hd, path_str) ==
  IF IsOpenDirectory(hd)
    THEN OpenDirectory_path_lookup(nodes, hd.ino, path_str)
    ELSE [ret |-> ERRNO_NOTSUP, inode_obj |-> NoInode]

\* path_link with lk, what the lookup of old_path returned (lines 637-644)
LinkLookedUp(w, new_fd, new_path, lk) ==
  IF lk.inode_obj = NoInode THEN [w |-> w, ret |-> lk.ret]
  ELSE ReturnedNodes(w, Fd_path_link(w.inodes, FdAt(w, new_fd), new_path,
                                     lk.inode_obj, FALSE))

wasi_path_link(w, old_fd, old_path, new_fd, new_path) ==
  IF Live(w, old_fd) /\ Live(w, new_fd)
    THEN LinkLookedUp(w, new_fd, new_path,
                      Fd_path_lookup(w.inodes, FdAt(w, old_fd), old_path))
    ELSE [w |-> w, ret |-> ERRNO_BADF]

\* path_rename that looks at its second descriptor only when it links
RenameCheckingSourceOnly(w, fd, old_path, new_fd, new_path) ==
  IF Live(w, fd)
    THEN
      LET u == Fd_path_unlink(w.inodes, FdAt(w, fd), old_path)
          l == Fd_path_link(u.nodes, FdAt(w, new_fd), new_path, u.inode_obj, TRUE)
      IN  IF u.inode_obj = NoInode
            THEN [w |-> w, ret |-> u.ret, unlinked |-> NoInode,
                  linkRet |-> ERRNO_SUCCESS]
          ELSE IF ~Live(w, new_fd)
            THEN [w |-> [w EXCEPT !.inodes = u.nodes], ret |-> ERRNO_BADF,
                  unlinked |-> u.inode_obj, linkRet |-> ERRNO_BADF]
          ELSE [w |-> [w EXCEPT !.inodes = l.nodes], ret |-> l.ret,
                unlinked |-> u.inode_obj, linkRet |-> l.ret]
    ELSE [w |-> w, ret |-> ERRNO_BADF, unlinked |-> NoInode,
          linkRet |-> ERRNO_BADF]

\* path_rename: unlinked is the inode taken from the source (NoInode when
\* the unlink failed), linkRet the errno of the link at the destination.
\* path_rename with back, what linking the inode at old_path again
\* returned (lines 763-771)
RenameRestored(w, u, l, back) ==
  [w |-> [w EXCEPT !.inodes = back.nodes],
   ret |-> IF back.ret # ERRNO_SUCCESS THEN THROWN ELSE l.ret,
   unlinked |-> u.inode_obj, linkRet |-> l.ret]

\* path_rename with l, what linking the inode at new_path returned
\* (lines 758-771)
RenameLinked(w, fd, old_path, u, l) ==
  IF l.ret # ERRNO_SUCCESS
    THEN RenameRestored(w, u, l,
                        Fd_path_link(l.nodes, FdAt(w, fd), old_path,
                                     u.inode_obj, TRUE))
    ELSE [w |-> [w EXCEPT !.inodes = l.nodes], ret |-> l.ret,
          unlinked |-> u.inode_obj, linkRet |-> l.ret]

\* path_rename with u, what unlinking old_path returned (lines 753-771)
RenameUnlinked(w, fd, old_path, new_fd, new_path, u) ==
  IF u.inode_obj = NoInode
    THEN [w |-> w, ret |-> u.ret, unlinked |-> NoInode,
          linkRet |-> ERRNO_SUCCESS]
    ELSE RenameLinked(w, fd, old_path, u,
                      Fd_path_link(u.nodes, FdAt(w, new_fd), new_path,
                                   u.inode_obj, TRUE))

wasi_path_rename(w, fd, old_path, new_fd, new_path) ==
  IF Live(w, fd) /\ Live(w, new_fd)
    THEN RenameUnlinked(w, fd, old_path, new_fd, new_path,
                        Fd_path_unlink(w.inodes, FdAt(w, fd), old_path))
    ELSE [w |-> w, ret |-> ERRNO_BADF, unlinked |-> NoInode,
          linkRet |-> ERRNO_SUCCESS]

wasi_path_unlink_file(w, fd, path_str) ==
  IF Live(w, fd)
    THEN IF IsOpenDirectory(FdAt(w, fd))
           THEN ReturnedNodes(w, OpenDirectory_path_unlink_file(
                                   w.inodes, FdAt(w, fd).ino, path_str))
           ELSE [w |-> w, ret |-> ERRNO_NOTSUP]
    ELSE [w |-> w, ret |-> ERRNO_BADF]

wasi_path_remove_directory(w, fd, path_str) ==
  IF Live(w, fd)
    THEN IF IsOpenDirectory(FdAt(w, fd))
           THEN ReturnedNodes(w, OpenDirectory_path_remove_directory(
                                   w.inodes, FdAt(w, fd).ino, path_str))
           ELSE [w |-> w, ret |-> ERRNO_NOTSUP]
    ELSE [w |-> w, ret |-> ERRNO_BADF]

\* ConsoleStdout.lineBuffered (fs-mem.ts, lines 722-736).  A text is the
\* sequence of its UTF-16 code units, so "\n" is 10.

\* The code unit TextDecoder puts for a malformed sequence (fatal: false)
REPLACEMENT == 65533

\* TextDecoder("utf-8").decode(bytes, {stream: true}) for bytes below 0xE0
\* (one-byte and two-byte sequences); lead is the lead byte kept from the
\* call before, 0 when none: [lead, text]
RECURSIVE DecodeLoop(_, _, _)
DecodeLoop(lead, bytes, text) ==
  IF bytes = <<>> THEN [lead |-> lead, text |-> text]
  ELSE IF lead # 0
    THEN IF Head(bytes) \in 128..191
           THEN DecodeLoop(0, Tail(bytes),
                           Append(text, (lead - 192) * 64 + (Head(bytes) - 128)))
           ELSE DecodeLoop(0, bytes, Append(text, REPLACEMENT))
  ELSE IF Head(bytes) < 128
    THEN DecodeLoop(0, Tail(bytes), Append(text, Head(bytes)))
  ELSE IF Head(bytes) \in 194..223
    THEN DecodeLoop(Head(bytes), Tail(bytes), text)
  ELSE DecodeLoop(0, Tail(bytes), Append(text, REPLACEMENT))

TextDecoder_decode(lead, bytes) == DecodeLoop(lead, bytes, <<>>)

\* String.prototype.split("\n")
RECURSIVE SplitLinesLoop(_, _, _)
SplitLinesLoop(str, cur, acc) ==
  IF str = <<>> THEN Append(acc, cur)
  ELSE IF Head(str) = 10 THEN SplitLinesLoop(Tail(str), <<>>, Append(acc, cur))
  ELSE SplitLinesLoop(Tail(str), Append(cur, Head(str)), acc)

SplitLines(str) == SplitLinesLoop(str, <<>>, <<>>)

\* The object lineBuffered returns, with the lines its sink has received
\* and, as history, the bytes written to it
NewConsoleStdout ==
  [lead |-> 0, line_buf |-> <<>>, sink |-> <<>>, written |-> <<>>]

\* The sink's lines and line_buf after the for loop over lines
LinesWritten(c, lines) ==
  [c EXCEPT !.sink = @ \o SubSeq(lines, 1, Len(lines) - 1),
            !.line_buf = lines[Len(lines)]]

\* The closure forgetting the text it held back
ConsoleStdout_writeDroppingHeld(c, buffer) ==
  LinesWritten([c EXCEPT !.lead = TextDecoder_decode(c.lead, buffer).lead,
                         !.written = @ \o buffer],
               SplitLines(TextDecoder_decode(c.lead, buffer).text))

\* The closure lineBuffered passes as write (lines 725-735)
ConsoleStdout_write(c, buffer) ==
  LinesWritten([c EXCEPT !.lead = TextDecoder_decode(c.lead, buffer).lead,
                         !.written = @ \o buffer],
               SplitLines(c.line_buf \o TextDecoder_decode(c.lead, buffer).text))

\* ConsoleStdout.fd_write
ConsoleStdout_fd_write(c, data) ==
  [obj |-> ConsoleStdout_write(c, data), ret |-> 0, nwritten |-> Len(data)]

\* A handle of a subclass of Fd that an embedder passes to the WASI
\* constructor (wasi.ts takes any Fd[]): a device that transfers a whole
\* segment at position 0 and fails with ERRNO_INVAL at any other position.
\* fd_read and fd_write move its cursor by the bytes transferred.
FailingFd == [kind |-> "FailingFd", ino |-> NoInode, file_pos |-> 0]
FailingFd_transfer(position, size) ==
  IF position = 0 THEN [ret |-> 0, n |-> size] ELSE [ret |-> ERRNO_INVAL, n |-> 0]
Zeros(n) == [i \in 1..n |-> 0]

\* The handle's fd_read(size): [w, ret, data]
Fd_fd_read(w, fd, size) ==
  LET hd == FdAt(w, fd)
  IN  IF hd.kind = "FailingFd"
        THEN LET r == FailingFd_transfer(hd.file_pos, size)
             IN  [w |-> [w EXCEPT !.fds[fd + 1].file_pos = @ + r.n],
                  ret |-> r.ret, data |-> Zeros(r.n)]
      ELSE IF hd.kind = "PollableStdin"
        THEN LET r == PollableStdin_fd_read(w.stdin, size)
             IN  [w |-> [w EXCEPT !.stdin = r.obj], ret |-> r.ret, data |-> r.data]
      ELSE IF hd.kind = "OpenFile"
        THEN LET r == OpenFile_fd_read(w.inodes, hd, size)
             IN  [w |-> [w EXCEPT !.fds[fd + 1] = r.hd], ret |-> r.ret,
                  data |-> r.data]
      ELSE IF IsOpenDirectory(hd)
        THEN [w |-> w, ret |-> ERRNO_BADF, data |-> <<>>]
      ELSE [w |-> w, ret |-> ERRNO_NOTSUP, data |-> <<>>]

\* The for loop of fd_read over the iovecs, each given by its buf_len.
RECURSIVE ReadIovecs(_, _, _, _, _)
\* The loop reporting no count when a segment fails
ReadTurnLosingCount(fd, iovecs, nread, acc, r) ==
  IF r.ret # ERRNO_SUCCESS
    THEN [w |-> r.w, ret |-> r.ret, nread |-> 0, data |-> acc]
  ELSE IF Len(r.data) # Head(iovecs)
    THEN [w |-> r.w, ret |-> ERRNO_SUCCESS, nread |-> nread + Len(r.data),
          data |-> acc \o r.data]
  ELSE ReadIovecs(r.w, fd, Tail(iovecs), nread + Len(r.data), acc \o r.data)

\* One turn of the loop with r, what the handle's fd_read returned
ReadTurn(fd, iovecs, nread, acc, r) ==
  IF r.ret # ERRNO_SUCCESS
    THEN [w |-> r.w, ret |-> r.ret, nread |-> nread, data |-> acc]
  ELSE IF Len(r.data) # Head(iovecs)
    THEN [w |-> r.w, ret |-> ERRNO_SUCCESS, nread |-> nread + Len(r.data),
          data |-> acc \o r.data]
  ELSE ReadIovecs(r.w, fd, Tail(iovecs), nread + Len(r.data), acc \o r.data)

ReadIovecs(w, fd, iovecs, nread, acc) ==
  IF iovecs = <<>>
    THEN [w |-> w, ret |-> ERRNO_SUCCESS, nread |-> nread, data |-> acc]
    ELSE ReadTurn(fd, iovecs, nread, acc, Fd_fd_read(w, fd, Head(iovecs)))

\* A call that wrote no byte count to the guest's memory.
NotWritten == -1

wasi_fd_read(w, fd, iovecs) ==
  IF Live(w, fd)
    THEN ReadIovecs(w, fd, iovecs, 0, <<>>)
    ELSE [w |-> w, ret |-> ERRNO_BADF, nread |-> NotWritten, data |-> <<>>]

\* The handle's fd_write(data): [w, ret, nwritten].  What a ConsoleStdout
\* hands to its sink is not part of w.
Fd_fd_write(w, fd, data) ==
  LET hd == FdAt(w, fd)
  IN  IF hd.kind = "FailingFd"
        THEN LET r == FailingFd_transfer(hd.file_pos, Len(data))
             IN  [w |-> [w EXCEPT !.fds[fd + 1].file_pos = @ + r.n],
                  ret |-> r.ret, nwritten |-> r.n]
      ELSE IF hd.kind = "OpenFile"
        THEN LET r == OpenFile_fd_write(w.inodes, hd, data)
             IN  [w |-> [w EXCEPT !.fds[fd + 1] = r.hd, !.inodes = r.nodes],
                  ret |-> r.ret, nwritten |-> r.nwritten]
      ELSE IF hd.kind = "ConsoleStdout"
        THEN LET r == ConsoleStdout_fd_write(w.consoles[hd.ino], data)
             IN  [w |-> [w EXCEPT !.consoles[hd.ino] = r.obj], ret |-> r.ret,
                  nwritten |-> r.nwritten]
      ELSE IF IsOpenDirectory(hd)
        THEN [w |-> w, ret |-> ERRNO_BADF, nwritten |-> 0]
      ELSE [w |-> w, ret |-> ERRNO_NOTSUP, nwritten |-> 0]

\* The for loop of fd_write over the iovecs, each given by its bytes.
RECURSIVE WriteIovecs(_, _, _, _)
WriteIovecs(w, fd, iovecs, nwritten) ==
  IF iovecs = <<>>
    THEN [w |-> w, ret |-> ERRNO_SUCCESS, nwritten |-> nwritten]
    ELSE LET r == Fd_fd_write(w, fd, Head(iovecs))
         IN  IF r.ret # ERRNO_SUCCESS
               THEN [w |-> r.w, ret |-> r.ret, nwritten |-> nwritten]
             ELSE IF r.nwritten # Len(Head(iovecs))
               THEN [w |-> r.w, ret |-> ERRNO_SUCCESS,
                     nwritten |-> nwritten + r.nwritten]
             ELSE WriteIovecs(r.w, fd, Tail(iovecs), nwritten + r.nwritten)

wasi_fd_write(w, fd, iovecs) ==
  IF Live(w, fd)
    THEN WriteIovecs(w, fd, iovecs, 0)
    ELSE [w |-> w, ret |-> ERRNO_BADF, nwritten |-> NotWritten]

\* The handle's fd_filestat_get: [ret, filestat].  PollableStdin and
\* ConsoleStdout answer as character devices; a handle that overrides
\* nothing inherits Fd's answer, ERRNO_NOTSUP and a null filestat (<<>>),
\* which the import does not write.
Fd_fd_filestat_get(w, hd) ==
  IF hd.kind = "OpenFile" THEN OpenFile_fd_filestat_get(w.inodes, hd)
  ELSE IF IsOpenDirectory(hd)
    THEN [ret |-> 0, filestat |-> Stat(w.inodes, hd.ino)]
  ELSE IF hd.kind \in {"PollableStdin", "ConsoleStdout"}
    THEN [ret |-> 0,
          filestat |-> [ino |-> hd.ino,
                        filetype |-> FILETYPE_CHARACTER_DEVICE, size |-> 0]]
  ELSE [ret |-> ERRNO_NOTSUP, filestat |-> <<>>]

wasi_fd_filestat_get(w, fd) ==
  IF Live(w, fd)
    THEN LET r == Fd_fd_filestat_get(w, FdAt(w, fd))
         IN  [w |-> w, ret |-> r.ret, filestat |-> r.filestat]
    ELSE [w |-> w, ret |-> ERRNO_BADF, filestat |-> <<>>]

\* The handle's fd_pread(size, offset): [ret, data]
Fd_fd_pread(w, hd, size, offset) ==
  IF hd.kind = "FailingFd"
    THEN [ret |-> FailingFd_transfer(offset, size).ret,
          data |-> Zeros(FailingFd_transfer(offset, size).n)]
  ELSE IF hd.kind = "OpenFile"
    THEN OpenFile_fd_pread(w.inodes, hd, size, offset)
  ELSE IF IsOpenDirectory(hd) THEN [ret |-> ERRNO_BADF, data |-> <<>>]
  ELSE [ret |-> ERRNO_NOTSUP, data |-> <<>>]

\* The for loop of fd_pread over the iovecs, each given by its buf_len.
RECURSIVE PreadIovecs(_, _, _, _, _, _)
\* One turn of the loop with r, what the handle's fd_pread returned
PreadTurn(w, hd, iovecs, offset, nread, acc, r) ==
  IF r.ret # ERRNO_SUCCESS
    THEN [w |-> w, ret |-> r.ret, nread |-> nread, data |-> acc]
  ELSE IF Len(r.data) # Head(iovecs)
    THEN [w |-> w, ret |-> ERRNO_SUCCESS, nread |-> nread + Len(r.data),
          data |-> acc \o r.data]
  ELSE PreadIovecs(w, hd, Tail(iovecs), offset + Len(r.data),
                   nread + Len(r.data), acc \o r.data)

PreadIovecs(w, hd, iovecs, offset, nread, acc) ==
  IF iovecs = <<>>
    THEN [w |-> w, ret |-> ERRNO_SUCCESS, nread |-> nread, data |-> acc]
    ELSE PreadTurn(w, hd, iovecs, offset, nread, acc,
                   Fd_fd_pread(w, hd, Head(iovecs), offset))

wasi_fd_pread(w, fd, iovecs, offset) ==
  IF Live(w, fd)
    THEN PreadIovecs(w, FdAt(w, fd), iovecs, offset, 0, <<>>)
    ELSE [w |-> w, ret |-> ERRNO_BADF, nread |-> NotWritten, data |-> <<>>]

\* The handle's fd_pwrite(data, offset): [w, ret, nwritten]
Fd_fd_pwrite(w, hd, data, offset) ==
  IF hd.kind = "FailingFd"
    THEN [w |-> w, ret |-> FailingFd_transfer(offset, Len(data)).ret,
          nwritten |-> FailingFd_transfer(offset, Len(data)).n]
  ELSE IF hd.kind = "OpenFile"
    THEN LET r == OpenFile_fd_pwrite(w.inodes, hd, data, offset)
         IN  [w |-> [w EXCEPT !.inodes = r.nodes], ret |-> r.ret,
              nwritten |-> r.nwritten]
  ELSE IF IsOpenDirectory(hd)
    THEN [w |-> w, ret |-> ERRNO_BADF, nwritten |-> 0]
  ELSE [w |-> w, ret |-> ERRNO_NOTSUP, nwritten |-> 0]

\* The for loop of fd_pwrite over the iovecs, each given by its bytes.
RECURSIVE PwriteIovecs(_, _, _, _, _)
\* One turn of the loop with r, what the handle's fd_pwrite returned
PwriteTurn(hd, iovecs, offset, nwritten, r) ==
  IF r.ret # ERRNO_SUCCESS
    THEN [w |-> r.w, ret |-> r.ret, nwritten |-> nwritten]
  ELSE IF r.nwritten # Len(Head(iovecs))
    THEN [w |-> r.w, ret |-> ERRNO_SUCCESS, nwritten |-> nwritten + r.nwritten]
  ELSE PwriteIovecs(r.w, hd, Tail(iovecs), offset + r.nwritten,
                    nwritten + r.nwritten)

PwriteIovecs(w, hd, iovecs, offset, nwritten) ==
  IF iovecs = <<>>
    THEN [w |-> w, ret |-> ERRNO_SUCCESS, nwritten |-> nwritten]
    ELSE PwriteTurn(hd, iovecs, offset, nwritten,
                    Fd_fd_pwrite(w, hd, Head(iovecs), offset))

wasi_fd_pwrite(w, fd, iovecs, offset) ==
  IF Live(w, fd)
    THEN PwriteIovecs(w, FdAt(w, fd), iovecs, offset, 0)
    ELSE [w |-> w, ret |-> ERRNO_BADF, nwritten |-> NotWritten]

\* The handle's fd_seek(offset, whence): [ret, offset, hd]
Fd_fd_seek(w, hd, offset, whence) ==
  IF hd.kind = "OpenFile" THEN OpenFile_fd_seek(w.inodes, hd, offset, whence)
  ELSE IF IsOpenDirectory(hd) THEN [ret |-> ERRNO_BADF, offset |-> 0, hd |-> hd]
  ELSE [ret |-> ERRNO_NOTSUP, offset |-> 0, hd |-> hd]

\* fd_seek with r, what the handle's fd_seek returned
Sought(w, fd, r) ==
  [w |-> [w EXCEPT !.fds[fd + 1] = r.hd], ret |-> r.ret, offset_out |-> r.offset]

\* No offset was written to the guest's memory.
NoOffset == -1

wasi_fd_seek(w, fd, offset, whence) ==
  IF Live(w, fd)
    THEN Sought(w, fd, Fd_fd_seek(w, FdAt(w, fd), offset, whence))
    ELSE [w |-> w, ret |-> ERRNO_BADF, offset_out |-> NoOffset]

\* The handle's fd_allocate: OpenFile's, OpenDirectory's, or the default of Fd.
Fd_fd_allocate(w, hd, offset, len) ==
  IF hd.kind = "OpenFile"
    THEN OpenFile_fd_allocate(w.inodes, hd, offset, len)
  ELSE IF IsOpenDirectory(hd)
    THEN [ret |-> ERRNO_BADF, nodes |-> w.inodes]
  ELSE [ret |-> ERRNO_NOTSUP, nodes |-> w.inodes]

wasi_fd_allocate(w, fd, offset, len) ==
  IF Live(w, fd)
    THEN ReturnedNodes(w, Fd_fd_allocate(w, FdAt(w, fd), offset, len))
    ELSE [w |-> w, ret |-> ERRNO_BADF]

\* The handle's fd_filestat_set_size: OpenFile's, OpenDirectory's, or the
\* default of Fd.
Fd_fd_filestat_set_size(w, hd, size) ==
  IF hd.kind = "OpenFile"
    THEN OpenFile_fd_filestat_set_size(w.inodes, hd, size)
  ELSE IF IsOpenDirectory(hd)
    THEN [ret |-> ERRNO_BADF, nodes |-> w.inodes]
  ELSE [ret |-> ERRNO_NOTSUP, nodes |-> w.inodes]

wasi_fd_filestat_set_size(w, fd, size) ==
  IF Live(w, fd)
    THEN ReturnedNodes(w, Fd_fd_filestat_set_size(w, FdAt(w, fd), size))
    ELSE [w |-> w, ret |-> ERRNO_BADF]

\* Dirent.head_length
head_length == 24
\* Dirent.name_length, for names of one-byte characters
name_length(dirent) == Len(dirent.d_name)

\* The handle's fd_readdir_single
Fd_fd_readdir_single(w, hd, cookie) ==
  IF IsOpenDirectory(hd)
    THEN OpenDirectory_fd_readdir_single(w.inodes, hd.ino, cookie)
    ELSE [ret |-> ERRNO_NOTSUP, dirent |-> NoDirent]

\* The for (;;) loop of fd_readdir.  written lists what the call copied to
\* the buffer: for each entry its header, and whether its name followed.
RECURSIVE ReaddirLoop(_, _, _, _, _, _)
ReaddirLoop(w, hd, buf_len, cookie, bufused, written) ==
  LET r == Fd_fd_readdir_single(w, hd, cookie)
  IN  IF r.ret # 0
        THEN [ret |-> r.ret, bufused |-> bufused, written |-> written]
      ELSE IF r.dirent = NoDirent
        THEN [ret |-> 0, bufused |-> bufused, written |-> written]
      ELSE IF buf_len - bufused < head_length
        THEN [ret |-> 0, bufused |-> buf_len, written |-> written]
      ELSE IF buf_len - (bufused + head_length) < name_length(r.dirent)
        THEN [ret |-> 0, bufused |-> buf_len,
              written |-> Append(written, [head |-> r.dirent, name |-> FALSE])]
      ELSE ReaddirLoop(w, hd, buf_len, r.dirent.d_next,
                       bufused + head_length + name_length(r.dirent),
                       Append(written, [head |-> r.dirent, name |-> TRUE]))

wasi_fd_readdir(w, fd, buf_len, cookie) ==
  IF Live(w, fd)
    THEN LET r == ReaddirLoop(w, FdAt(w, fd), buf_len, cookie, 0, <<>>)
         IN  [w |-> w, ret |-> r.ret, bufused |-> r.bufused,
              written |-> r.written]
    ELSE [w |-> w, ret |-> ERRNO_BADF, bufused |-> NotWritten, written |-> <<>>]

----------------------------------------------------------------------------
(* poll_oneoff (wasi.ts).  A subscription is the record that               *)
(* Subscription.read_bytes decodes, an event the record that               *)
(* Event.write_bytes encodes; a clock reading is [realtime, monotonic] in   *)
(* nanoseconds; the clockTimeout of poll_oneoff is <<>> while it is null    *)
(* and <<endTime>> afterwards.                                              *)

\* new wasi.Event(userdata, error, type, nbytes = 0n, flags = 0)
Event(userdata, error, type, nbytes, flags) ==
  [userdata |-> userdata, error |-> error, type |-> type, nbytes |-> nbytes,
   flags |-> flags]

\* Event.write_bytes: the error and the flags are written as 16 bits, the
\* type as 8 bits.
Event_write_bytes(e) ==
  [e EXCEPT !.error = @ % 65536, !.type = @ % 256, !.flags = @ % 65536]

\* The getNow of a clock subscription of poll_oneoff, on the reading now.
getNow(clockid, now) ==
  IF clockid = CLOCKID_REALTIME THEN now.realtime ELSE now.monotonic

\* The handle's fd_poll(eventtype): PollableStdin overrides Fd.fd_poll.
Fd_fd_poll(w, fd, eventtype) ==
  IF FdAt(w, fd).kind = "PollableStdin"
    THEN PollableStdin_fd_poll(w.stdin, eventtype)
    ELSE [ready |-> FALSE, nbytes |-> 0, flags |-> 0]

NullTimeout == <<>>

\* The endTime of a clock subscription on a known clock.
EndTime(sub, now) ==
  IF HasFlag(sub.flags, SUBCLOCKFLAGS_SUBSCRIPTION_CLOCK_ABSTIME)
    THEN sub.timeout
    ELSE getNow(sub.clockid, now) + sub.timeout

\* The for loop of poll_oneoff over the subscriptions subs, the clocks
\* reading Head(nows) at Head(subs): [events, clockTimeout, clockUserdata]
RECURSIVE PollScan(_, _, _, _, _, _)
\* The tracking of the deadline, keeping the last one
PollTrackedLast(w, subs, nows, events, clockTimeout, clockUserdata, endTime) ==
  PollScan(w, Tail(subs), Tail(nows), events, <<endTime>>, Head(subs).userdata)

\* The tracking of the deadline without the tag of its subscription
PollTrackedUntagged(w, subs, nows, events, clockTimeout, clockUserdata, endTime) ==
  IF clockTimeout = NullTimeout \/ endTime < clockTimeout[1]
    THEN PollScan(w, Tail(subs), Tail(nows), events, <<endTime>>, clockUserdata)
    ELSE PollScan(w, Tail(subs), Tail(nows), events, clockTimeout, clockUserdata)

PollTracked(w, subs, nows, events, clockTimeout, clockUserdata, endTime) ==
  IF clockTimeout = NullTimeout \/ endTime < clockTimeout[1]
    THEN PollScan(w, Tail(subs), Tail(nows), events, <<endTime>>, Head(subs).userdata)
    ELSE PollScan(w, Tail(subs), Tail(nows), events, clockTimeout, clockUserdata)

PollProbed(w, subs, nows, events, clockTimeout, clockUserdata, pollResult) ==
  IF pollResult.ready
    THEN PollScan(w, Tail(subs), Tail(nows),
                  Append(events,
                         Event(Head(subs).userdata, ERRNO_SUCCESS,
                               Head(subs).eventtype, pollResult.nbytes,
                               pollResult.flags)),
                  clockTimeout, clockUserdata)
    ELSE PollScan(w, Tail(subs), Tail(nows), events, clockTimeout, clockUserdata)

PollFailed(w, subs, nows, events, clockTimeout, clockUserdata, error) ==
  PollScan(w, Tail(subs), Tail(nows),
           Append(events,
                  Event(Head(subs).userdata, error, Head(subs).eventtype, 0, 0)),
           clockTimeout, clockUserdata)

PollScan(w, subs, nows, events, clockTimeout, clockUserdata) ==
  IF subs = <<>>
    THEN [events |-> events, clockTimeout |-> clockTimeout,
          clockUserdata |-> clockUserdata]
  ELSE IF Head(subs).eventtype = EVENTTYPE_CLOCK
    THEN IF Head(subs).clockid \in {CLOCKID_MONOTONIC, CLOCKID_REALTIME}
           THEN PollTracked(w, subs, nows, events, clockTimeout, clockUserdata,
                            EndTime(Head(subs), Head(nows)))
           ELSE PollFailed(w, subs, nows, events, clockTimeout, clockUserdata,
                           ERRNO_INVAL)
  ELSE IF Head(subs).eventtype \in {EVENTTYPE_FD_READ, EVENTTYPE_FD_WRITE}
    THEN IF ~Live(w, Head(subs).fd)
           THEN PollFailed(w, subs, nows, events, clockTimeout, clockUserdata,
                           ERRNO_BADF)
           ELSE PollProbed(w, subs, nows, events, clockTimeout, clockUserdata,
                           Fd_fd_poll(w, Head(subs).fd, Head(subs).eventtype))
  ELSE PollFailed(w, subs, nows, events, clockTimeout, clockUserdata,
                  ERRNO_NOTSUP)

\* subscriptions.find((s) => s.eventtype === EVENTTYPE_CLOCK)?.clockid
RECURSIVE FirstClockId(_)
FirstClockId(subs) ==
  IF subs = <<>> THEN CLOCKID_MONOTONIC
  ELSE IF Head(subs).eventtype = EVENTTYPE_CLOCK THEN Head(subs).clockid
  ELSE FirstClockId(Tail(subs))

\* The check of the clock, firing only after the deadline
PollExpiredLate(subscriptions, scan, later) ==
  IF scan.events = <<>> /\ scan.clockTimeout # NullTimeout
       /\ getNow(FirstClockId(subscriptions), later) > scan.clockTimeout[1]
    THEN << Event(scan.clockUserdata, ERRNO_SUCCESS, EVENTTYPE_CLOCK, 0, 0) >>
    ELSE scan.events

\* The check of the clock after the loop, on the reading later: the events
\* poll_oneoff reports.
PollExpired(subscriptions, scan, later) ==
  IF scan.events = <<>> /\ scan.clockTimeout # NullTimeout
       /\ getNow(FirstClockId(subscriptions), later) >= scan.clockTimeout[1]
    THEN << Event(scan.clockUserdata, ERRNO_SUCCESS, EVENTTYPE_CLOCK, 0, 0) >>
    ELSE scan.events

\* poll_oneoff taking what it reported out of the queue of stdin
PollWrittenDraining(w, events) ==
  [w |-> [w EXCEPT !.stdin.buffer = <<>>, !.stdin.bufferSize = 0],
   ret |-> ERRNO_SUCCESS,
   events |-> [i \in 1..Len(events) |-> Event_write_bytes(events[i])],
   nevents |-> Len(events)]

\* What poll_oneoff writes: the events and their number.
PollWritten(w, events) ==
  [w |-> w, ret |-> ERRNO_SUCCESS,
   events |-> [i \in 1..Len(events) |-> Event_write_bytes(events[i])],
   nevents |-> Len(events)]

\* poll_oneoff(in_ptr, out_ptr, nsubscriptions, nevents_ptr), the clocks
\* reading nows[i] at the i-th subscription of the loop (each relative
\* clock subscription calls getNow() for itself) and later after the loop:
\* [w, ret, events, nevents]
wasi_poll_oneoff(w, subscriptions, nows, later) ==
  IF Len(subscriptions) = 0
    THEN [w |-> w, ret |-> ERRNO_INVAL, events |-> <<>>, nevents |-> NotWritten]
    ELSE PollWritten(w, PollExpired(subscriptions,
                                    PollScan(w, subscriptions, nows, <<>>,
                                             NullTimeout, 0),
                                    later))

\* The readings of a loop during which the clocks do not move.
Steady(subscriptions, reading) ==
  [i \in 1..Len(subscriptions) |-> reading]

\* The user tag of the subscription at position i of a batch of the guest.
Tag(i) == 6 + i
Tagged(batch) ==
  [i \in 1..Len(batch) |-> [batch[i] EXCEPT !.userdata = Tag(i)]]

\* The batch of one fd subscription on descriptor 0, as
\* Subscription.read_bytes decodes it.
StdinBatch(eventtype) ==
  Tagged(<< [userdata |-> 0, eventtype |-> eventtype, clockid |-> 0,
             timeout |-> 0, flags |-> 0, fd |-> 0] >>)

NoPollCall ==
  [op |-> "none", subscriptions |-> <<>>, now |-> <<>>,
   later |-> [realtime |-> 0, monotonic |-> 0], ret |-> 0, events |-> <<>>,
   nevents |-> NotWritten]

----------------------------------------------------------------------------
(* QuickJS (quickjs.ts): the harness and the runs of its driving loop.     *)
(* The harness is l = [running, exitCode, runs, stack].  runLoop() and      *)
(* runLoopSync() test nothing before they set running, so the host can      *)
(* call them while an earlier runLoop() is pending: runs holds the runs,    *)
(* up to MaxRuns at a time, and stack the runs on the JavaScript call       *)
(* stack, the one that executes last.  A run has the position pc of         *)
(* runLoop / runLoopSync ("idle" before the first run, "while" at the test  *)
(* of the while loop, "body" past the test, "pollIO" before the call of     *)
(* pollIO, "returned", "thrown"), its mode, the result of the loopOnce of    *)
(* the iteration, whether it waits at an await (yielded) and the value it   *)
(* returned.  A history is kept for one run at a time, the                  *)
(* run that is watched, and any run can be it.  For a run watched for its   *)
(* exit: whether the guest has raised proc_exit in a call of the run, the   *)
(* code it raised first, the calls of the run into the guest begun after    *)
(* that, and whether the host or another run called into the guest or       *)
(* started a run while the run was in progress (disturbed).  For a run      *)
(* watched for its stop: whether stop() was called during the run, the      *)
(* calls of loopOnce and pollIO of the run since, and whether a run was     *)
(* started after that stop().                                               *)

LOOP_IDLE == -1
LOOP_ERROR == -2

Runs == 1..MaxRuns

Watches == {"none", "exit", "stop"}

NewRun ==
  [pc |-> "idle", sync |-> FALSE, result |-> 0, yielded |-> FALSE,
   returned |-> 0, watch |-> "none",
   raised |-> FALSE, raisedCode |-> 0, callsAfter |-> 0,
   stopped |-> FALSE, oncesAfterStop |-> 0, pollsAfterStop |-> 0,
   restarted |-> FALSE, disturbed |-> FALSE]

NewQuickJS ==
  [running |-> FALSE, exitCode |-> 0, runs |-> [i \in Runs |-> NewRun],
   stack |-> <<>>]

\* PollableStdin.hasData()
PollableStdin_hasData(s) == s.bufferSize > 0

\* What a call of an export of the guest ends in: a number returned, the
\* WASIProcExit that proc_exit(code) throws, or any other throw.
Returned(value) == [kind |-> "return", value |-> value]
ProcExit(code) == [kind |-> "exit", value |-> code]
OtherThrow == [kind |-> "throw", value |-> 0]

\* The run has not returned or thrown; it waits at an await; its history
\* is kept.
RunInProgress(run) == run.pc \in {"while", "body", "pollIO"}
Suspended(run) == run.pc = "while" /\ run.yielded
Watched(run) == RunInProgress(run) /\ run.watch # "none"
WatchedFor(run, what) == RunInProgress(run) /\ run.watch = what

\* A run that has returned or thrown leaves nothing in the object.  Its
\* record stays for one state, where it shows how the run ended, and the
\* next step of the program drops it.
Forgotten(l) ==
  [l EXCEPT !.runs = [i \in Runs |->
                        IF RunInProgress(l.runs[i]) THEN l.runs[i]
                                                    ELSE NewRun]]

\* The history of run i once it has called the guest and the call ended in
\* g.
Called(l, i, g) ==
  IF WatchedFor(l.runs[i], "exit")
    THEN [l EXCEPT !.runs[i].callsAfter =
                     IF l.runs[i].raised /\ @ < MaxOnces THEN @ + 1 ELSE @,
                   !.runs[i].raised = @ \/ g.kind = "exit",
                   !.runs[i].raisedCode =
                     IF ~l.runs[i].raised /\ g.kind = "exit" THEN g.value
                                                              ELSE @]
    ELSE l

\* loopOnce(), the call of qjs_loop_once ending in g: [l, threw, ret]
loopOnce(l, g) ==
  IF g.kind = "exit"
    THEN [l |-> [l EXCEPT !.running = FALSE, !.exitCode = g.value],
          threw |-> FALSE, ret |-> LOOP_IDLE]
    ELSE [l |-> l, threw |-> g.kind = "throw", ret |-> g.value]

\* pollIO(timeoutMs), the call of qjs_poll_io ending in g: [l, threw, ret]
pollIO(l, g) ==
  IF g.kind = "exit"
    THEN [l |-> [l EXCEPT !.running = FALSE, !.exitCode = g.value],
          threw |-> FALSE, ret |-> -1]
    ELSE [l |-> l, threw |-> g.kind = "throw", ret |-> g.value]

\* The history of the run in progress once the host has called loopOnce()
\* or pollIO() itself.
HostCalled(l) ==
  [l EXCEPT !.runs = [i \in Runs |->
                        IF WatchedFor(l.runs[i], "exit")
                          THEN [l.runs[i] EXCEPT !.disturbed = TRUE]
                          ELSE l.runs[i]]]

\* stop() that leaves the loop running
stopIgnored(l) == l

\* stop()
stop(l) == [l EXCEPT !.running = FALSE]

\* The history of the run in progress once stop() has been called, and of
\* run i once it has called loopOnce and pollIO: the calls since stop().
StopCalled(l) ==
  [l EXCEPT !.runs = [i \in Runs |->
                        IF WatchedFor(l.runs[i], "stop")
                          THEN [l.runs[i] EXCEPT !.stopped = TRUE]
                          ELSE l.runs[i]]]
OnceCalled(l, i) ==
  [l EXCEPT !.runs[i].oncesAfterStop =
              IF l.runs[i].stopped /\ @ < MaxOnces THEN @ + 1 ELSE @]
PollCalled(l, i) ==
  [l EXCEPT !.runs[i].pollsAfterStop =
              IF l.runs[i].stopped /\ @ < MaxOnces THEN @ + 1 ELSE @]

\* The history of the run in progress once a run is started next to it.
RunStarted(l) ==
  [l EXCEPT !.runs = [i \in Runs |->
                        IF WatchedFor(l.runs[i], "exit")
                          THEN [l.runs[i] EXCEPT !.disturbed = TRUE]
                        ELSE IF WatchedFor(l.runs[i], "stop")
                          THEN [l.runs[i] EXCEPT
                                  !.restarted = @ \/ l.runs[i].stopped]
                        ELSE l.runs[i]]]

\* The first statement of runLoop (sync = FALSE) and of runLoopSync, for
\* the run i that the call makes, watched or not: the function is on the
\* call stack.
runLoop(l, i, sync, watch) ==
  [l EXCEPT !.running = TRUE,
            !.runs[i] = [NewRun EXCEPT
                           !.pc = "while", !.sync = sync, !.watch = watch,
                           !.disturbed =
                             /\ watch = "exit"
                             /\ \E j \in Runs : RunInProgress(l.runs[j])],
            !.stack = Append(@, i)]

\* return this.exitCode
LoopReturn(l, i) ==
  [l EXCEPT !.runs[i].pc = "returned", !.runs[i].returned = l.exitCode]

\* while (this.running)
LoopTest(l, i) ==
  IF l.running THEN [l EXCEPT !.runs[i].pc = "body", !.runs[i].yielded = FALSE,
                              !.runs[i].result = 0]
               ELSE LoopReturn([l EXCEPT !.runs[i].yielded = FALSE], i)

\* The body of the while loop of run i from the return of loopOnce, r, to
\* the call of pollIO, the next test or the end of the run; hasData is
\* this.stdin.hasData().  At an await of runLoop the run yields.
LoopBody(r, i, hasData) ==
  LET l == [r.l EXCEPT !.runs[i].result = r.ret]
      sync == r.l.runs[i].sync
  IN  IF r.threw \/ r.ret = LOOP_ERROR
        THEN [l EXCEPT !.runs[i].pc = "thrown"]
      ELSE IF r.ret = LOOP_IDLE
        THEN IF hasData THEN [l EXCEPT !.runs[i].pc = "pollIO"]
                        ELSE LoopReturn(l, i)
      ELSE IF r.ret = 0
        THEN [l EXCEPT !.runs[i].pc = "while", !.runs[i].yielded = ~sync]
      ELSE IF r.ret > 0
        THEN IF hasData THEN [l EXCEPT !.runs[i].pc = "pollIO"]
             ELSE IF sync THEN LoopReturn(l, i)
             ELSE [l EXCEPT !.runs[i].pc = "while", !.runs[i].yielded = TRUE]
      ELSE [l EXCEPT !.runs[i].pc = "while"]

\* The body from the return of pollIO(0), r, to the next test: runLoop
\* awaits a microtask after the pollIO of a pending timer.
LoopPolled(r, i) ==
  IF r.threw
    THEN [r.l EXCEPT !.runs[i].pc = "thrown"]
    ELSE [r.l EXCEPT !.runs[i].pc = "while",
                     !.runs[i].yielded =
                       ~r.l.runs[i].sync /\ r.l.runs[i].result > 0]

\* The call stack once run i has taken a step: the run leaves it when it
\* yields at an await, returns or throws, and is on top of it otherwise.
Scheduled(l, i) ==
  LET rest == SelectSeq(l.stack, LAMBDA j : j # i)
  IN  [l EXCEPT !.stack = IF RunInProgress(l.runs[i]) /\ ~Suspended(l.runs[i])
                            THEN Append(rest, i) ELSE rest]

----------------------------------------------------------------------------
(* The program's state and the calls made on it *)

World ==
  [fds |-> fds, freeFds |-> freeFds, inodes |-> inodes, next_ino |-> next_ino,
   stdin |-> stdin, consoles |-> consoles]

\* The embedding's construction, as in the README:
\*   createQuickJS(module, {fs: buildFileSystem(new Map([["a/b", bytes]]))})
\* buildFileSystem (quickjs.ts, lines 433-462) makes Directory a and File b
\* (inos 1, 2); the QuickJS constructor (lines 80-115) makes stdin, stdout,
\* stderr (inos 3 to 5) and the root Directory of the preopen (ino 6), whose
\* constructor sets the parent of a.
DirAIno == 1
FileBIno == 2
StdinIno == 3
StdoutIno == 4
StderrIno == 5
RootIno == 6
FirstFreeIno == 7

\* The bytes of the file a/b.
InitBytes == <<7>>

InitInodes ==
  (DirAIno :> [NewDirectory(<< [name |-> <<"b">>, ino |-> FileBIno] >>)
                 EXCEPT !.parent = RootIno])
  @@ (FileBIno :> NewFile(InitBytes, FALSE))
  @@ (RootIno :> NewDirectory(<< [name |-> <<"a">>, ino |-> DirAIno] >>))

InitFds ==
  << [kind |-> "PollableStdin", ino |-> StdinIno, file_pos |-> 0],
     [kind |-> "ConsoleStdout", ino |-> StdoutIno, file_pos |-> 0],
     [kind |-> "ConsoleStdout", ino |-> StderrIno, file_pos |-> 0],
     PreopenDirectory(RootIno) >>

Init ==
  /\ stdin = NewPollableStdin
  /\ pushed = <<>>
  /\ consumed = <<>>
  /\ inodes = InitInodes
  /\ next_ino = FirstFreeIno
  /\ fds = InitFds
  /\ freeFds = <<>>
  /\ fault = FALSE
  /\ registered = NoCallback
  /\ stdinCall = [op |-> "none", arg |-> <<>>, woke |-> <<>>]
  /\ pathCall = NoPath
  /\ loop = NewQuickJS
  /\ clock = [realtime |-> 0, monotonic |-> 0]
  /\ pollCall = NoPollCall
  /\ consoles = [i \in {StdoutIno, StderrIno} |-> NewConsoleStdout]

\* The File and Directory objects a handle of the table still refers to,
\* directly or through directory entries and parent references: the
\* JavaScript heap keeps these and no call can observe the others.
HandleInodes(w) ==
  { w.fds[i].ino : i \in { j \in 1..Len(w.fds) :
                           w.fds[j].kind \in {"OpenFile", "OpenDirectory",
                                              "PreopenDirectory"} } }

RefsOf(nodes, ino) ==
  { nodes[ino].contents[i].ino : i \in 1..Len(nodes[ino].contents) }
  \cup (IF nodes[ino].parent = NoInode THEN {} ELSE {nodes[ino].parent})

RECURSIVE Reachable(_, _)
Reachable(nodes, seen) ==
  LET more == seen \cup UNION { RefsOf(nodes, i) : i \in seen }
  IN  IF more = seen THEN seen ELSE Reachable(nodes, more)

Collect(w) ==
  LET keep == Reachable(w.inodes, HandleInodes(w))
  IN  [w EXCEPT !.inodes = [i \in keep |-> w.inodes[i]]]

\* The state after a call is the state the call returns.  A throw out of an
\* import function traps the guest, and no call follows it.
Returns(r) ==
  /\ fds' = r.w.fds
  /\ freeFds' = r.w.freeFds
  /\ inodes' = Collect(r.w).inodes
  /\ next_ino' = r.w.next_ino
  /\ stdin' = r.w.stdin
  /\ consoles' = r.w.consoles
  /\ fault' = (r.ret = THROWN)

PollUnchanged ==
  UNCHANGED <<pushed, consumed, registered, pathCall, loop>>

\* The last call on stdin once poll_oneoff has probed the descriptors of
\* the fd subscriptions: the fd_poll of the last one that names stdin.
RECURSIVE StdinPolls(_, _, _)
StdinPolls(w, subs, call) ==
  IF subs = <<>> THEN call
  ELSE IF /\ Head(subs).eventtype \in {EVENTTYPE_FD_READ, EVENTTYPE_FD_WRITE}
          /\ FdAt(w, Head(subs).fd).kind = "PollableStdin"
    THEN StdinPolls(w, Tail(subs),
                    [op |-> "fd_poll",
                     arg |-> <<Head(subs).eventtype,
                               PollableStdin_fd_poll(
                                 w.stdin, Head(subs).eventtype).nbytes>>,
                     woke |-> <<>>])
  ELSE StdinPolls(w, Tail(subs), call)

\* The state after poll_oneoff and the record of the call: the readings of
\* the clocks at the subscriptions of the loop, nows, and after it, later.
Polled(subscriptions, nows, later, r) ==
  /\ Returns(r)
  /\ clock' = later
  /\ stdinCall' = StdinPolls(World, subscriptions, stdinCall)
  /\ pollCall' = [op |-> "poll_oneoff", subscriptions |-> subscriptions,
                  now |-> nows, later |-> later, ret |-> r.ret,
                  events |-> r.events, nevents |-> r.nevents]
  /\ PollUnchanged

\* The bounds on the state a call may lead to.
WithinBounds(w) ==
  /\ w.next_ino <= FirstFreeIno + MaxCreated
  /\ Len(w.fds) <= MaxFds

----------------------------------------------------------------------------
(* Spec: the guest's calls on the filesystem tree *)

\* The path strings, descriptor numbers and flags the guest passes.
PathStrings == { <<"a">>, <<"b">>, <<"a", "/">>, <<"a", "/", "b">> }
FdNumbers == 3 .. (MaxFds - 1)
\* The guest keeps the preopened root open and closes what it has opened.
OpenedFds == 4 .. (MaxFds - 1)
OflagsSet ==
  { 0, OFLAGS_CREAT, OFLAGS_CREAT + OFLAGS_DIRECTORY,
    OFLAGS_CREAT + OFLAGS_EXCL, OFLAGS_TRUNC }

Call(r) ==
  /\ WithinBounds(r.w)
  /\ Returns(r)
  /\ UNCHANGED <<pushed, consumed, registered, stdinCall, pathCall, loop,
                 clock, pollCall>>

FdClose ==
  \E fd \in OpenedFds :
    /\ ~fault
    /\ Call(wasi_fd_close(World, fd))

PathOpen ==
  \E fd \in FdNumbers, path_str \in PathStrings, oflags \in OflagsSet :
    /\ ~fault
    /\ Call(wasi_path_open(World, fd, path_str, oflags, 0, 0))

PathCreateDirectory ==
  \E fd \in FdNumbers, path_str \in PathStrings :
    /\ ~fault
    /\ Call(wasi_path_create_directory(World, fd, path_str))

PathLink ==
  \E old_fd \in FdNumbers, old_path \in PathStrings,
     new_fd \in FdNumbers, new_path \in PathStrings :
    /\ ~fault
    /\ Call(wasi_path_link(World, old_fd, old_path, new_fd, new_path))

PathRename ==
  \E fd \in FdNumbers, old_path \in PathStrings,
     new_fd \in FdNumbers, new_path \in PathStrings :
    /\ ~fault
    /\ Call(wasi_path_rename(World, fd, old_path, new_fd, new_path))

PathUnlinkFile ==
  \E fd \in FdNumbers, path_str \in PathStrings :
    /\ ~fault
    /\ Call(wasi_path_unlink_file(World, fd, path_str))

PathRemoveDirectory ==
  \E fd \in FdNumbers, path_str \in PathStrings :
    /\ ~fault
    /\ Call(wasi_path_remove_directory(World, fd, path_str))

Next ==
  \/ FdClose
  \/ PathOpen
  \/ PathCreateDirectory
  \/ PathLink
  \/ PathRename
  \/ PathUnlinkFile
  \/ PathRemoveDirectory

Spec == Init /\ [][Next]_vars

----------------------------------------------------------------------------
(* SpecFdTable: the guest's calls on the descriptor table *)

\* Every index of the table, and one past its largest size.
TableFds == 0 .. MaxFds
TablePaths == { <<"a">> }

TableOpen ==
  \E fd \in TableFds, path_str \in TablePaths :
    /\ ~fault
    /\ Call(wasi_path_open(World, fd, path_str, 0, 0, 0))

TableClose ==
  \E fd \in TableFds :
    /\ ~fault
    /\ Call(wasi_fd_close(World, fd))

TableRenumber ==
  \E fd \in TableFds, to \in TableFds :
    /\ ~fault
    /\ Call(wasi_fd_renumber(World, fd, to))

NextFdTable ==
  \/ TableOpen
  \/ TableClose
  \/ TableRenumber

SpecFdTable == Init /\ [][NextFdTable]_vars

----------------------------------------------------------------------------
(* SpecStdin: the host feeding stdin, the guest reading descriptor 0 *)

StdinFd == 0
ReadSizes == { <<0>>, <<1>>, <<2>>, <<1, 1>> }

StdinUnchanged ==
  UNCHANGED <<inodes, next_ino, fds, freeFds, fault, pathCall, loop, clock,
              pollCall, consoles>>

\* stdin.push(data), while the bounds of the run allow the chunk
Push ==
  \E data \in Chunks :
    /\ stdin.closed
       \/ (Len(pushed) + Len(data) <= MaxPushed /\ Len(stdin.buffer) < MaxChunks)
    /\ LET r == PollableStdin_push(stdin, data)
       IN  /\ stdin' = r.obj
           /\ stdinCall' = [op |-> "push", arg |-> data, woke |-> r.woke]
    /\ pushed' = IF stdin.closed THEN pushed ELSE pushed \o data
    /\ UNCHANGED <<consumed, registered>>
    /\ StdinUnchanged

\* stdin.close()
Close ==
  /\ LET r == PollableStdin_close(stdin)
     IN  /\ stdin' = r.obj
         /\ stdinCall' = [op |-> "close", arg |-> <<>>, woke |-> r.woke]
  /\ UNCHANGED <<pushed, consumed, registered>>
  /\ StdinUnchanged

\* stdin.onWake(cb)
OnWake ==
  \E cb \in Callbacks \cup {NoCallback} :
    /\ stdin' = PollableStdin_onWake(stdin, cb)
    /\ registered' = cb
    /\ stdinCall' = [op |-> "onWake", arg |-> <<cb>>, woke |-> <<>>]
    /\ UNCHANGED <<pushed, consumed>>
    /\ StdinUnchanged

\* the guest's fd_read(0, iovecs)
StdinRead ==
  \E iovecs \in ReadSizes :
    LET r == wasi_fd_read(World, StdinFd, iovecs)
    IN  /\ stdin' = r.w.stdin
        /\ consumed' = consumed \o r.data
        /\ stdinCall' = [op |-> "fd_read", arg |-> iovecs, woke |-> <<>>]
        /\ UNCHANGED <<pushed, registered>>
        /\ StdinUnchanged

\* the guest's poll of descriptor 0, which reads the object and writes nothing
StdinPoll ==
  \E eventtype \in {EVENTTYPE_FD_READ, EVENTTYPE_FD_WRITE} :
    LET r == PollableStdin_fd_poll(stdin, eventtype)
    IN  /\ stdinCall' = [op |-> "fd_poll", arg |-> <<eventtype, r.nbytes>>,
                         woke |-> <<>>]
        /\ UNCHANGED <<stdin, pushed, consumed, registered>>
        /\ StdinUnchanged

\* the guest's poll_oneoff with one fd subscription on descriptor 0
StdinPollOneoff ==
  \E eventtype \in {EVENTTYPE_FD_READ, EVENTTYPE_FD_WRITE} :
    /\ ~fault
    /\ Polled(StdinBatch(eventtype), Steady(StdinBatch(eventtype), clock),
              clock,
              wasi_poll_oneoff(World, StdinBatch(eventtype),
                               Steady(StdinBatch(eventtype), clock), clock))

NextStdin ==
  \/ Push
  \/ Close
  \/ OnWake
  \/ StdinRead
  \/ StdinPoll
  \/ StdinPollOneoff

SpecStdin == Init /\ [][NextStdin]_vars

----------------------------------------------------------------------------
(* SpecFile: the guest's calls on descriptors open on the file a/b *)

\* The descriptors, flags, offsets and bytes the guest passes.
FileFds == 4 .. (MaxFileFds - 1)
FilePath == <<"a", "/", "b">>
FileOflags == {0, OFLAGS_TRUNC}
FileFdFlags == {0, FDFLAGS_APPEND}
SeekOffsets == -1 .. MaxFileSize
Whences == {WHENCE_SET, WHENCE_CUR, WHENCE_END, 3}
FileWrites == { <<>>, << <<8>> >>, << <<8, 9>> >>, << <<>> >>, << <<8>>, <<9>> >> }

\* The bounds on the state a call of SpecFile may lead to.
WithinFile(w) ==
  /\ Len(w.fds) <= MaxFileFds
  /\ \A i \in DOMAIN w.inodes : Len(w.inodes[i].data) <= MaxFileSize
  /\ \A i \in 1..Len(w.fds) : w.fds[i].file_pos <= MaxFileSize

FileCall(r) ==
  /\ WithinFile(r.w)
  /\ Returns(r)
  /\ UNCHANGED <<pushed, consumed, registered, stdinCall, pathCall, loop,
                 clock, pollCall>>

FileOpen ==
  \E oflags \in FileOflags, fd_flags \in FileFdFlags :
    /\ ~fault
    /\ FileCall(wasi_path_open(World, 3, FilePath, oflags, 0, fd_flags))

FileClose ==
  \E fd \in FileFds :
    /\ ~fault
    /\ FileCall(wasi_fd_close(World, fd))

FileSeek ==
  \E fd \in FileFds, offset \in SeekOffsets, whence \in Whences :
    /\ ~fault
    /\ FileCall(wasi_fd_seek(World, fd, offset, whence))

FileRead ==
  \E fd \in FileFds, iovecs \in ReadSizes :
    /\ ~fault
    /\ FileCall(wasi_fd_read(World, fd, iovecs))

FileWrite ==
  \E fd \in FileFds, iovecs \in FileWrites :
    /\ ~fault
    /\ FileCall(wasi_fd_write(World, fd, iovecs))

FileOffsets == 0 .. MaxFileSize

FilePread ==
  \E fd \in FileFds, iovecs \in ReadSizes, offset \in FileOffsets :
    /\ ~fault
    /\ FileCall(wasi_fd_pread(World, fd, iovecs, offset))

FilePwrite ==
  \E fd \in FileFds, iovecs \in FileWrites, offset \in FileOffsets :
    /\ ~fault
    /\ FileCall(wasi_fd_pwrite(World, fd, iovecs, offset))

NextFile ==
  \/ FileOpen
  \/ FileClose
  \/ FileSeek
  \/ FileRead
  \/ FileWrite
  \/ FilePread
  \/ FilePwrite

SpecFile == Init /\ [][NextFile]_vars

----------------------------------------------------------------------------
(* SpecPath: strings parsed by Path.from and joined by to_path_string *)

\* The characters of a path string, and the strings of up to MaxPathLen.
PathChars == {"a", "b", ".", "/", NUL}
\* Longer strings that leave the directory after entering it.
LongPaths ==
  { <<"a", "/", ".", ".", "/", ".", ".">>,
    <<"a", "/", ".", ".", "/", ".", ".", "/", "a">> }
PathInputs == UNION { [1..n -> PathChars] : n \in 0..MaxPathLen } \cup LongPaths

PathUnchanged ==
  UNCHANGED <<stdin, pushed, consumed, inodes, next_ino, fds, freeFds, fault,
              registered, stdinCall, loop, clock, pollCall, consoles>>

\* Path.from(str)
PathFromCall ==
  \E str \in PathInputs :
    /\ pathCall' = [stage |-> "from", str |-> str, from |-> PathFrom(str),
                    joined |-> <<>>]
    /\ PathUnchanged

\* path.to_path_string() on the Path that Path.from returned
ToPathStringCall ==
  /\ pathCall.stage = "from"
  /\ pathCall.from.ok
  /\ pathCall' = [pathCall EXCEPT !.stage = "joined",
                                  !.joined = to_path_string(pathCall.from)]
  /\ PathUnchanged

NextPath ==
  \/ PathFromCall
  \/ ToPathStringCall

SpecPath == Init /\ [][NextPath]_vars

----------------------------------------------------------------------------
(* SpecLoop: runLoop / runLoopSync driving the guest, the host feeding    *)
(* stdin, stopping the loop, calling the guest and starting further runs  *)
(* when the loop gives it a turn                                          *)

\* What qjs_loop_once and qjs_poll_io return, the codes of proc_exit, the
\* iovecs of the fd_read(0) the guest makes during a call (none: <<>>), and
\* the chunks the host pushes: a read takes one byte of the two of a chunk.
LoopOnceValues == {LOOP_ERROR, LOOP_IDLE, 0, 1}
PollIOValues == {0}
ExitCodes == {0, 7}
GuestReads == { <<>>, <<1>> }
LoopChunks == { <<2, 3>> }
GuestOutcomes(values) ==
  { Returned(v) : v \in values } \cup { ProcExit(c) : c \in ExitCodes }
    \cup { OtherThrow }

LoopUnchanged ==
  UNCHANGED <<inodes, next_ino, fds, freeFds, fault, registered, pathCall,
              clock, pollCall, consoles>>

\* JavaScript runs one thing at a time.  The run on top of the call stack
\* executes; a run that waits at an await resumes when the stack is empty.
Executing(i) ==
  /\ loop.stack # <<>>
  /\ loop.stack[Len(loop.stack)] = i
Resumable(i) == Suspended(loop.runs[i]) /\ loop.stack = <<>>

\* The host runs when no run is on the stack (before and after the runs, at
\* the awaits of runLoop) and in the onTick callback of the runLoop on top
\* of it.  The callback returns, and the host catches what the calls it
\* makes there throw.
HostTurn ==
  \/ loop.stack = <<>>
  \/ \E i \in Runs :
       Executing(i) /\ ~loop.runs[i].sync /\ loop.runs[i].pc = "body"

\* SpecLoop follows the stdin object and keeps no record of the calls made
\* on it, of the bytes pushed or of the bytes read.
StdinUnrecorded == UNCHANGED <<pushed, consumed, stdinCall>>

\* The guest's fd_read(0, iovecs) during a call of one of its exports.
GuestReadsStdin(iovecs, r) ==
  /\ stdin' = r.w.stdin
  /\ StdinUnrecorded

\* runLoop(), runLoopSync(), called by the host: this.running = true,
\* whether or not a run is in progress.  The model follows MaxRuns runs at
\* a time; the run takes the first place that no run in progress has, and
\* it can be the run watched when no run in progress is.
RunLoop ==
  \E sync \in BOOLEAN, watch \in Watches, i \in Runs :
    /\ HostTurn
    /\ ~RunInProgress(loop.runs[i])
    /\ \A j \in Runs : j < i => RunInProgress(loop.runs[j])
    /\ watch # "none" => \A j \in Runs : ~Watched(loop.runs[j])
    /\ loop' = runLoop(RunStarted(Forgotten(loop)), i, sync, watch)
    /\ UNCHANGED stdin
    /\ StdinUnrecorded
    /\ LoopUnchanged

\* while (this.running), and the return after it
LoopWhile(i) ==
  /\ loop.runs[i].pc = "while"
  /\ Executing(i) \/ Resumable(i)
  /\ loop' = Scheduled(LoopTest(Forgotten(loop), i), i)
  /\ UNCHANGED stdin
  /\ StdinUnrecorded
  /\ LoopUnchanged

\* const result = this.loopOnce() and the branches on result
LoopOnce(i) ==
  /\ loop.runs[i].pc = "body"
  /\ Executing(i)
  /\ \E iovecs \in GuestReads, g \in GuestOutcomes(LoopOnceValues) :
       /\ GuestReadsStdin(iovecs, wasi_fd_read(World, StdinFd, iovecs))
       /\ \E r \in {loopOnce(Called(OnceCalled(Forgotten(loop), i), i, g),
                             g)} :
            loop' = Scheduled(LoopBody(r, i, PollableStdin_hasData(stdin')),
                              i)
  /\ LoopUnchanged

\* this.pollIO(0) and the continue after it
LoopPollIO(i) ==
  /\ loop.runs[i].pc = "pollIO"
  /\ Executing(i)
  /\ \E iovecs \in GuestReads, g \in GuestOutcomes(PollIOValues) :
       /\ GuestReadsStdin(iovecs, wasi_fd_read(World, StdinFd, iovecs))
       /\ \E r \in {pollIO(Called(PollCalled(Forgotten(loop), i), i, g),
                           g)} :
            loop' = Scheduled(LoopPolled(r, i), i)
  /\ LoopUnchanged

\* loopOnce(), called by the host: the call of qjs_loop_once ending in g,
\* the guest reading fd 0 during it.  A proc_exit of the guest sets running
\* and exitCode whether or not a run is in progress; the value returned and
\* any other throw go to the host.
HostLoopOnce ==
  \E iovecs \in GuestReads, g \in GuestOutcomes(LoopOnceValues) :
    /\ HostTurn
    /\ GuestReadsStdin(iovecs, wasi_fd_read(World, StdinFd, iovecs))
    /\ loop' = HostCalled(loopOnce(Forgotten(loop), g).l)
    /\ LoopUnchanged

\* pollIO(timeoutMs), called by the host: the same with qjs_poll_io
HostPollIO ==
  \E iovecs \in GuestReads, g \in GuestOutcomes(PollIOValues) :
    /\ HostTurn
    /\ GuestReadsStdin(iovecs, wasi_fd_read(World, StdinFd, iovecs))
    /\ loop' = HostCalled(pollIO(Forgotten(loop), g).l)
    /\ LoopUnchanged

\* stop(), called by the host
Stop ==
  /\ HostTurn
  /\ loop' = StopCalled(stop(Forgotten(loop)))
  /\ UNCHANGED stdin
  /\ StdinUnrecorded
  /\ LoopUnchanged

\* pushStdin(data), called by the host while stdin is open and holds fewer
\* than MaxLoopChunks chunks
LoopPush ==
  \E data \in LoopChunks :
    /\ HostTurn
    /\ ~stdin.closed
    /\ Len(stdin.buffer) < MaxLoopChunks
    /\ stdin' = PollableStdin_push(stdin, data).obj
    /\ loop' = Forgotten(loop)
    /\ StdinUnrecorded
    /\ LoopUnchanged

\* stdin.close(), called by the host
LoopClose ==
  /\ HostTurn
  /\ stdin' = PollableStdin_close(stdin).obj
  /\ loop' = Forgotten(loop)
  /\ StdinUnrecorded
  /\ LoopUnchanged

\* destroy(), called by the host: the call of qjs_destroy ending in g, the
\* guest reading fd 0 during it, then this.stdin.close().  destroy()
\* catches nothing: a proc_exit or any other throw of the guest leaves it
\* before the close, and exitCode and running are not touched.
Destroy ==
  \E iovecs \in GuestReads, g \in GuestOutcomes({0}) :
    /\ HostTurn
    /\ LET r == wasi_fd_read(World, StdinFd, iovecs)
       IN  stdin' = IF g.kind = "return"
                      THEN PollableStdin_close(r.w.stdin).obj
                      ELSE r.w.stdin
    /\ loop' = Forgotten(loop)
    /\ StdinUnrecorded
    /\ LoopUnchanged

NextLoop ==
  \/ RunLoop
  \/ \E i \in Runs : LoopWhile(i)
  \/ \E i \in Runs : LoopOnce(i)
  \/ \E i \in Runs : LoopPollIO(i)
  \/ HostLoopOnce
  \/ HostPollIO
  \/ Stop
  \/ LoopPush
  \/ LoopClose
  \/ Destroy

SpecLoop == Init /\ [][NextLoop]_vars

\* The JavaScript engine keeps running the loops: the test, the calls into
\* the guest, the onTick callback and the awaits of runLoop all come to an
\* end, and a run that waits at an await gets its turn each time the call
\* stack has emptied.
FairSpecLoop ==
  /\ SpecLoop
  /\ \A i \in Runs : SF_vars(LoopWhile(i))
  /\ \A i \in Runs : SF_vars(LoopOnce(i))
  /\ \A i \in Runs : WF_vars(LoopPollIO(i))

----------------------------------------------------------------------------
(* SpecPoll: the guest's poll_oneoff, the host feeding stdin, the clocks  *)

\* The subscriptions of a batch: clock subscriptions on the two clocks and
\* on an unknown one, relative and absolute, fd subscriptions on stdin,
\* stdout and an absent descriptor, and a subscription of unknown type.
\* Subscription.read_bytes leaves the fields it does not read at 0.  The
\* user tag of the subscription at position i is Tag(i).
Timeouts == {0, 1}
ClockIds == {CLOCKID_REALTIME, CLOCKID_MONOTONIC, 2}
PollFds == {0, 1, 9}
ClockSubscription(c, t, f) ==
  [userdata |-> 0, eventtype |-> EVENTTYPE_CLOCK, clockid |-> c,
   timeout |-> t, flags |-> f, fd |-> 0]
ClockSubscriptions ==
  { ClockSubscription(c, t, f) :
      c \in ClockIds, t \in Timeouts,
      f \in {0, SUBCLOCKFLAGS_SUBSCRIPTION_CLOCK_ABSTIME} }
FdSubscriptions ==
  { [userdata |-> 0, eventtype |-> e, clockid |-> 0, timeout |-> 0,
     flags |-> 0, fd |-> fd] :
      e \in {EVENTTYPE_FD_READ, EVENTTYPE_FD_WRITE, 3}, fd \in PollFds }
Subscriptions == ClockSubscriptions \cup FdSubscriptions
Batches ==
  { Tagged(b) : b \in UNION { [1..n -> Subscriptions] : n \in 0..MaxSubs } }

\* The batches the guest of SpecPoll polls with: those of at most one
\* subscription, a timer on either clock next to a read of stdin or to a
\* timer on the other clock, and two relative timers on one clock, which
\* the loop reads once for each.
StdinSubscription ==
  [userdata |-> 0, eventtype |-> EVENTTYPE_FD_READ, clockid |-> 0,
   timeout |-> 0, flags |-> 0, fd |-> 0]
GuestBatches ==
  { b \in Batches : Len(b) <= 1 } \cup
    { Tagged(<<ClockSubscription(c, 1, f), StdinSubscription>>) :
        c \in {CLOCKID_REALTIME, CLOCKID_MONOTONIC},
        f \in {0, SUBCLOCKFLAGS_SUBSCRIPTION_CLOCK_ABSTIME} } \cup
    { Tagged(<<ClockSubscription(CLOCKID_REALTIME, 1, 0),
               ClockSubscription(CLOCKID_MONOTONIC, 1,
                                 SUBCLOCKFLAGS_SUBSCRIPTION_CLOCK_ABSTIME)>>),
      Tagged(<<ClockSubscription(CLOCKID_MONOTONIC, 1, 0),
               ClockSubscription(CLOCKID_REALTIME, 0,
                                 SUBCLOCKFLAGS_SUBSCRIPTION_CLOCK_ABSTIME)>>),
      Tagged(<<ClockSubscription(CLOCKID_MONOTONIC, 1, 0),
               ClockSubscription(CLOCKID_MONOTONIC, 0, 0)>>) }

\* The nanoseconds a clock may advance during a call of poll_oneoff.
Delays == {0, 1}

\* What the two clocks advance by during a call: Date and performance.now()
\* are not tied to each other.
ClockDelays == [realtime : Delays, monotonic : Delays]

\* The clocks after each has advanced by its part of d.
Advance(c, d) ==
  [realtime |-> c.realtime + d.realtime,
   monotonic |-> c.monotonic + d.monotonic]

\* The call that advances the clocks by d stays within the readings of the
\* model.
WithinClock(c, d) ==
  /\ c.realtime + d.realtime <= MaxClock
  /\ c.monotonic + d.monotonic <= MaxClock

\* Time passes on one of the clocks: the two are not tied to each other.
Tick ==
  \E c \in {"realtime", "monotonic"} :
    /\ clock[c] < MaxClock
    /\ clock' = [clock EXCEPT ![c] = @ + 1]
    /\ UNCHANGED <<stdin, inodes, next_ino, fds, freeFds, fault, pollCall,
                   stdinCall, consoles>>
    /\ PollUnchanged

\* The subscription makes the loop read its clock: a clock subscription on
\* a known clock whose timeout is relative.
TakesReading(sub) ==
  /\ sub.eventtype = EVENTTYPE_CLOCK
  /\ sub.clockid \in {CLOCKID_MONOTONIC, CLOCKID_REALTIME}
  /\ ~HasFlag(sub.flags, SUBCLOCKFLAGS_SUBSCRIPTION_CLOCK_ABSTIME)

\* The subscription makes the loop read the clock named c.
ReadsClock(sub, c) ==
  /\ TakesReading(sub)
  /\ c = (IF sub.clockid = CLOCKID_REALTIME THEN "realtime" ELSE "monotonic")

\* What the clock named c may have advanced by at each subscription of a
\* loop, when it advances by delay during the call: the clock does not go
\* back, and where the loop does not read it the value is the one before.
ClockSteps(subscriptions, c, delay) ==
  { f \in [1..Len(subscriptions) -> 0..delay] :
      \A i \in 1..Len(subscriptions) :
        /\ i > 1 => f[i - 1] <= f[i]
        /\ ~ReadsClock(subscriptions[i], c) =>
             f[i] = IF i = 1 THEN 0 ELSE f[i - 1] }

\* The readings a loop over the subscriptions may take, one at each
\* subscription, in a call that starts at the readings c and in which the
\* clocks have advanced by d at the check after the loop.  Each
\* subscription reads its own clock only, and the two clocks advance
\* independently.
LoopReadings(subscriptions, c, d) ==
  { [i \in 1..Len(subscriptions) |->
       [realtime |-> c.realtime + fr[i], monotonic |-> c.monotonic + fm[i]]] :
      fr \in ClockSteps(subscriptions, "realtime", d.realtime),
      fm \in ClockSteps(subscriptions, "monotonic", d.monotonic) }

\* The guest's poll_oneoff, during which each clock may advance by up to a
\* nanosecond
PollOneoff ==
  \E subscriptions \in GuestBatches, d \in ClockDelays :
    \E nows \in LoopReadings(subscriptions, clock, d) :
      /\ ~fault
      /\ WithinClock(clock, d)
      /\ Polled(subscriptions, nows, Advance(clock, d),
                wasi_poll_oneoff(World, subscriptions, nows,
                                 Advance(clock, d)))

\* The chunks the host of SpecPoll queues on stdin, which it does while
\* stdin is open: what poll_oneoff reports of stdin is its byte count and
\* whether it is closed.
MaxPolledChunks == 1

NextPoll ==
  \/ Push /\ ~stdin.closed /\ Len(stdin'.buffer) <= MaxPolledChunks
  \/ Close
  \/ Tick
  \/ PollOneoff

SpecPoll == Init /\ [][NextPoll]_vars

----------------------------------------------------------------------------
(* Properties of path_rename (Spec) *)

\* The paths a call is checked on: those of the run, and paths that end in
\* a slash on a free name, name the directory itself, leave it, are
\* absolute, hold a NUL or are empty.
ClaimPaths ==
  PathStrings \cup
    { <<"b", "/">>, <<".">>, <<".", ".">>, <<"/", "a">>, <<"a", NUL>>, <<>> }

\* The names of a directory with the inode each resolves to.
Entries(nodes, dir) ==
  { <<nodes[dir].contents[i].name, nodes[dir].contents[i].ino>> :
      i \in 1..Len(nodes[dir].contents) }

\* Every directory resolves the same names to the same inodes in both heaps,
\* and every file holds the same bytes.
SameTree(before, after) ==
  /\ DOMAIN before = DOMAIN after
  /\ \A i \in DOMAIN before :
       /\ before[i].kind = after[i].kind
       /\ before[i].data = after[i].data
       /\ Entries(before, i) = Entries(after, i)

\* The inode is an entry of some directory of the heap.
Linked(nodes, ino) ==
  \E d \in DOMAIN nodes : \E e \in Entries(nodes, d) : e[2] = ino

\* C1: whenever path_rename(A, B) has unlinked the inode at A and the link
\* at B fails, the call returns the errno of that link, A resolves to the
\* same inode as before the call and every directory holds the entries it
\* held before the call.
C1_FailedRenameRollsBack ==
  \A fd \in FdNumbers, new_fd \in FdNumbers,
     old_path \in ClaimPaths, new_path \in ClaimPaths :
    LET r == wasi_path_rename(World, fd, old_path, new_fd, new_path)
    IN  (r.unlinked # NoInode /\ r.linkRet # ERRNO_SUCCESS) =>
          /\ r.ret = r.linkRet
          /\ Fd_path_lookup(r.w.inodes, FdAt(World, fd), old_path).inode_obj
               = r.unlinked
          /\ SameTree(inodes, r.w.inodes)

\* C2: no call of path_rename ends in the throw of its re-link, which
\* leaves the inode it unlinked from the source out of the tree.
C2_RelinkNeverThrows == ~fault

\* What holds of C1: a path_rename whose link at B fails and whose re-link
\* at A succeeds returns the errno of the link at B and restores the tree.
FailedRenameRollsBackUnlessThrown ==
  \A fd \in FdNumbers, new_fd \in FdNumbers,
     old_path \in ClaimPaths, new_path \in ClaimPaths :
    LET r == wasi_path_rename(World, fd, old_path, new_fd, new_path)
    IN  /\ (r.unlinked # NoInode /\ r.linkRet # ERRNO_SUCCESS
              /\ r.ret # THROWN) =>
             /\ r.ret = r.linkRet
             /\ Fd_path_lookup(r.w.inodes, FdAt(World, fd), old_path).inode_obj
                  = r.unlinked
             /\ SameTree(inodes, r.w.inodes)
        /\ r.ret = THROWN => EndsWithSlash(old_path)

----------------------------------------------------------------------------
(* Properties of fd_readdir (Spec) *)

\* Buffer lengths that hold the largest entry, "..": exactly, with room to
\* spare, one entry and part of the next, two entries, the whole directory.
DrainBufLens == {26, 27, 49, 50, 52, 200}

\* The guest: it calls fd_readdir, keeps the entries whose name arrived
\* whole, resumes from the d_next of the last of them, and stops at a call
\* that reports no bytes used.  calls counts the calls that reported bytes.
RECURSIVE Drain(_, _, _, _, _, _)
Drain(w, fd, buf_len, cookie, got, calls) ==
  LET r == wasi_fd_readdir(w, fd, buf_len, cookie)
      whole == SelectSeq(r.written, LAMBDA e : e.name)
  IN  IF r.ret # ERRNO_SUCCESS \/ (r.bufused # 0 /\ whole = <<>>)
        THEN [ended |-> FALSE, got |-> got, calls |-> calls]
      ELSE IF r.bufused = 0
        THEN [ended |-> TRUE, got |-> got, calls |-> calls]
      ELSE Drain(w, fd, buf_len, whole[Len(whole)].head.d_next,
                 got \o [i \in 1..Len(whole) |->
                           <<whole[i].head.d_name, whole[i].head.d_ino>>],
                 calls + 1)

\* The children of a directory in the insertion order of its Map.
Children(nodes, dir) ==
  [i \in 1..Len(nodes[dir].contents) |->
     <<nodes[dir].contents[i].name, nodes[dir].contents[i].ino>>]

\* C3: for every open directory and every buffer length that holds the
\* largest entry, the guest's drain from cookie 0 ends at a call reporting
\* zero bytes used, having received ".", "..", then each child once in
\* insertion order.
C3_ReaddirDrainsInOrder ==
  \A fd \in FdNumbers, buf_len \in DrainBufLens :
    IsOpenDirectory(FdAt(World, fd)) =>
      LET dir == FdAt(World, fd).ino
          d == Drain(World, fd, buf_len, 0, <<>>, 0)
      IN  /\ d.ended
          /\ d.got = << <<<<".">>, dir>>,
                        <<<<".", ".">>, parent_ino(inodes, dir)>> >>
                     \o Children(inodes, dir)

\* Witness of C3: the root holds b before a, and a drain of it with room
\* for one entry and part of the next takes a call per entry.
C3_Witness ==
  /\ Len(inodes[RootIno].contents) = 2
  /\ inodes[RootIno].contents[1].name = <<"b">>
  /\ Drain(World, 3, 49, 0, <<>>, 0).calls = 4

----------------------------------------------------------------------------
(* Properties of files that lose their name (Spec) *)

ClaimReads == { <<1>>, <<2>> }
ClaimWrites == { <<8>>, <<8, 9>> }

\* What a descriptor open on a File does, whatever names the File has.
OpenFileWorks(fd) ==
  LET hd == FdAt(World, fd)
      node == inodes[hd.ino]
  IN  /\ wasi_fd_filestat_get(World, fd) =
           [w |-> World, ret |-> ERRNO_SUCCESS,
            filestat |-> [ino |-> hd.ino, filetype |-> FILETYPE_REGULAR_FILE,
                          size |-> Len(node.data)]]
      /\ \A iovecs \in ClaimReads :
           LET r == wasi_fd_read(World, fd, iovecs)
           IN  /\ r.ret = ERRNO_SUCCESS
               /\ r.data = Slice(node.data, hd.file_pos, hd.file_pos + iovecs[1])
               /\ r.w.inodes = inodes
      /\ \A data \in ClaimWrites :
           LET r == wasi_fd_write(World, fd, <<data>>)
           IN  /\ r.ret = ERRNO_SUCCESS
               /\ r.nwritten = Len(data)
               /\ Slice(r.w.inodes[hd.ino].data, hd.file_pos,
                        hd.file_pos + Len(data)) = data
               /\ \A i \in DOMAIN inodes \ {hd.ino} : r.w.inodes[i] = inodes[i]

\* A path_open that creates a file makes an inode that is none of the heap,
\* and a write through either descriptor leaves the other file as it was.
CreatedFileIsDistinct(fd) ==
  LET hd == FdAt(World, fd)
  IN  \A dirfd \in FdNumbers, path_str \in ClaimPaths,
         oflags \in {OFLAGS_CREAT, OFLAGS_CREAT + OFLAGS_EXCL} :
        LET r == wasi_path_open(World, dirfd, path_str, oflags, 0, 0)
            created == FdAt(r.w, r.opened_fd)
        IN  (r.ret = ERRNO_SUCCESS /\ r.w.next_ino # next_ino) =>
              /\ created.ino \notin DOMAIN inodes
              /\ r.w.inodes[created.ino].data = <<>>
              /\ r.w.inodes[hd.ino] = inodes[hd.ino]
              /\ \A data \in ClaimWrites :
                   /\ wasi_fd_write(r.w, r.opened_fd, <<data>>).w.inodes[hd.ino]
                        = inodes[hd.ino]
                   /\ wasi_fd_write(r.w, fd, <<data>>).w.inodes[created.ino]
                        = r.w.inodes[created.ino]

\* A call that leaves the descriptor table as it is (a path_unlink_file, a
\* path_rename, any call on the tree) leaves the bytes of every open file
\* as they are.
NamesDoNotTouchContent ==
  \A fd \in FdNumbers :
    (FdAt(World, fd).kind = "OpenFile" /\ fds' = fds) =>
      /\ FdAt(World, fd).ino \in DOMAIN inodes'
      /\ inodes'[FdAt(World, fd).ino] = inodes[FdAt(World, fd).ino]

\* C9: a descriptor open on a file keeps reading, writing and reporting
\* the same File object when the file has no name left, no removal of a
\* name changes the bytes of an open file, and a file created afterwards is
\* a new inode whose bytes are independent of the open one.
C9_OpenFileOutlivesItsName ==
  /\ [](\A fd \in FdNumbers :
          (FdAt(World, fd).kind = "OpenFile"
             /\ ~Linked(inodes, FdAt(World, fd).ino)) =>
            (OpenFileWorks(fd) /\ CreatedFileIsDistinct(fd)))
  /\ [][NamesDoNotTouchContent]_vars

\* Witness of C9: descriptor 4 is open on the file made as a/b, whose name
\* is gone, and it still holds its byte.
C9_Witness ==
  /\ FdAt(World, 4).kind = "OpenFile"
  /\ FdAt(World, 4).ino = FileBIno
  /\ ~Linked(inodes, FileBIno)
  /\ inodes[FileBIno].data = InitBytes
  /\ wasi_path_open(World, 3, <<"a", "/", "b">>, OFLAGS_CREAT, 0, 0).ret
       = ERRNO_SUCCESS

----------------------------------------------------------------------------
(* Properties of exclusive creation (Spec) *)

\* The parent directory of the path exists and its final name is free.
ParentExistsNameFree(nodes, dir, path_str) ==
  LET pf == PathFrom(path_str)
      pe == get_parent_dir_and_entry_for_path(nodes, dir, pf, TRUE)
  IN  pf.ok /\ pe.parent_entry # NoInode /\ pe.entry = NoInode

\* C10: on a path whose parent exists and whose final name is free, a
\* path_open with create and exclusive succeeds and creates the entry, and
\* a second one fails with EXIST and changes nothing.
C10_SecondExclusiveCreateExists ==
  \A fd \in FdNumbers, path_str \in ClaimPaths,
     more \in {0, OFLAGS_DIRECTORY} :
    LET oflags == OFLAGS_CREAT + OFLAGS_EXCL + more
        first == wasi_path_open(World, fd, path_str, oflags, 0, 0)
        second == wasi_path_open(first.w, fd, path_str, oflags, 0, 0)
    IN  (IsOpenDirectory(FdAt(World, fd))
           /\ ParentExistsNameFree(inodes, FdAt(World, fd).ino, path_str)) =>
          /\ first.ret = ERRNO_SUCCESS
          /\ ~ParentExistsNameFree(first.w.inodes, FdAt(World, fd).ino, path_str)
          /\ second.ret = ERRNO_EXIST
          /\ second.w = first.w

\* What holds of C10: the same, of the paths that do not end in a slash.
SecondExclusiveCreateExistsWithoutSlash ==
  \A fd \in FdNumbers, path_str \in ClaimPaths,
     more \in {0, OFLAGS_DIRECTORY} :
    LET oflags == OFLAGS_CREAT + OFLAGS_EXCL + more
        first == wasi_path_open(World, fd, path_str, oflags, 0, 0)
        second == wasi_path_open(first.w, fd, path_str, oflags, 0, 0)
    IN  (IsOpenDirectory(FdAt(World, fd))
           /\ ParentExistsNameFree(inodes, FdAt(World, fd).ino, path_str)
           /\ ~EndsWithSlash(path_str)) =>
          /\ first.ret = ERRNO_SUCCESS
          /\ ~ParentExistsNameFree(first.w.inodes, FdAt(World, fd).ino, path_str)
          /\ second.ret = ERRNO_EXIST
          /\ second.w = first.w

----------------------------------------------------------------------------
(* Properties of PollableStdin (SpecStdin) *)

\* C4: the bytes fd_read has returned, followed by the bytes still queued,
\* are the bytes pushed before close, in push order; so what was read is a
\* prefix of what was pushed, and bufferSize counts the queued bytes.
C4_ReadsArePrefixOfPushes ==
  /\ consumed \o Flatten(stdin.buffer) = pushed
  /\ IsPrefix(consumed, pushed)
  /\ stdin.bufferSize = Len(Flatten(stdin.buffer))

\* Witness of C4: a read has split the chunk <<2, 3>> after a read of the
\* chunk before it, and stdin is closed with the rest still queued.
C4_Witness ==
  /\ stdin.closed
  /\ pushed = <<1, 2, 3>>
  /\ consumed = <<1, 2>>
  /\ stdin.buffer = << <<3>> >>

RECURSIVE Sum(_)
Sum(sizes) == IF sizes = <<>> THEN 0 ELSE Head(sizes) + Sum(Tail(sizes))

Min(a, b) == IF a <= b THEN a ELSE b

\* C5: a push on a closed stdin leaves the object, its queue and its byte
\* count as they were and invokes no callback, and an fd_read on a closed
\* stdin returns the first queued bytes, as many as it asked for.
C5_PushAfterCloseIsIgnored ==
  [][/\ (stdinCall'.op = "push" /\ stdin.closed) =>
          (stdin' = stdin /\ stdinCall'.woke = <<>> /\ pushed' = pushed)
     /\ (stdinCall'.op = "fd_read" /\ stdin.closed) =>
          consumed' = consumed \o
            SubSeq(Flatten(stdin.buffer), 1,
                   Min(Sum(stdinCall'.arg), stdin.bufferSize))]_vars

\* Witness of C5: the last call pushed a chunk of bytes to a closed stdin
\* that holds bytes pushed before the close and has a callback registered.
C5_Witness ==
  /\ stdin.closed
  /\ stdinCall.op = "push"
  /\ stdinCall.arg = <<1>>
  /\ stdin.bufferSize > 0
  /\ registered \in Callbacks

\* The callbacks a call is to invoke: the one last passed to onWake, once.
Expected == IF registered = NoCallback THEN <<>> ELSE <<registered>>

\* C6: a push on an open stdin and a close invoke the callback last passed
\* to onWake exactly once, or none after onWake(null); onWake, fd_read and
\* fd_poll invoke none.
C6_WakeOncePerPushAndClose ==
  [][/\ (stdinCall'.op = "push" /\ ~stdin.closed) => stdinCall'.woke = Expected
     /\ stdinCall'.op = "close" => stdinCall'.woke = Expected
     /\ stdinCall'.op \in {"onWake", "fd_read", "fd_poll"} =>
          stdinCall'.woke = <<>>]_vars

\* Witness of C6: the last call closed a stdin that bytes were pushed to,
\* and invoked cb2, the callback registered then.
C6_Witness ==
  /\ stdinCall.op = "close"
  /\ stdinCall.woke = <<"cb2">>
  /\ pushed # <<>>

----------------------------------------------------------------------------
(* Properties of the descriptor table (SpecFdTable) *)

\* C7: a successful path_open returns a descriptor whose slot held no live
\* handle, the last index of the free list when there is one and else the
\* index one past the end of the table, and leaves every other slot as it
\* was.
C7_AllocationNeverOverwrites ==
  \A fd \in TableFds, path_str \in ClaimPaths, oflags \in {0, OFLAGS_CREAT} :
    LET r == wasi_path_open(World, fd, path_str, oflags, 0, 0)
    IN  r.ret = ERRNO_SUCCESS =>
          /\ ~Live(World, r.opened_fd)
          /\ Live(r.w, r.opened_fd)
          /\ r.opened_fd = IF freeFds # <<>> THEN freeFds[Len(freeFds)]
                                             ELSE Len(fds)
          /\ \A other \in 0 .. (Len(fds) - 1) :
               other # r.opened_fd => FdAt(r.w, other) = FdAt(World, other)

\* Witness of C7: the table never grew, a path_open has put a directory
\* handle in a freed slot, and free indices remain.
C7_Witness ==
  /\ Len(fds) = Len(InitFds)
  /\ \E i \in 1..Len(fds) : fds[i].kind = "OpenDirectory"
  /\ Len(freeFds) >= 2

\* Descriptor numbers below, in and past the table.
AnyFds == -1 .. (MaxFds + 1)

\* The call returned BADF and left the state as it was.
Refused(r) == r.ret = ERRNO_BADF /\ r.w = World

\* C8: every call on a descriptor number with no live entry returns BADF
\* and leaves the table, the free list and the tree as they were; so do
\* fd_renumber, path_link and path_rename when either of their descriptors
\* has no live entry.
C8_AbsentDescriptorIsRefused ==
  \A fd \in AnyFds :
    ~Live(World, fd) =>
      /\ Refused(wasi_fd_close(World, fd))
      /\ Refused(wasi_fd_filestat_get(World, fd))
      /\ Refused(wasi_fd_read(World, fd, <<1>>))
      /\ Refused(wasi_fd_write(World, fd, << <<1>> >>))
      /\ Refused(wasi_fd_readdir(World, fd, 200, 0))
      /\ \A other \in AnyFds :
           /\ Refused(wasi_fd_renumber(World, fd, other))
           /\ Refused(wasi_fd_renumber(World, other, fd))
      /\ \A path_str \in TablePaths \cup {<<"a", "/", "b">>, <<"b">>} :
           /\ Refused(wasi_path_open(World, fd, path_str, OFLAGS_CREAT, 0, 0))
           /\ Refused(wasi_path_create_directory(World, fd, path_str))
           /\ Refused(wasi_path_filestat_get(World, fd, path_str))
           /\ Refused(wasi_path_unlink_file(World, fd, path_str))
           /\ Refused(wasi_path_remove_directory(World, fd, path_str))
           /\ \A other \in AnyFds :
                /\ Refused(wasi_path_link(World, fd, path_str, other, <<"b">>))
                /\ Refused(wasi_path_link(World, other, path_str, fd, <<"b">>))
                /\ Refused(wasi_path_rename(World, fd, path_str, other, <<"b">>))
                /\ Refused(wasi_path_rename(World, other, path_str, fd, <<"b">>))

\* Witness of C8: descriptor 2 was closed and not reused, so that a second
\* fd_close of it is refused, while the root is open at another index with
\* a/b in it for a path_rename to unlink.
C8_Witness ==
  /\ ~Live(World, 2)
  /\ \E i \in 1..Len(freeFds) : freeFds[i] = 2
  /\ wasi_fd_close(World, 2).ret = ERRNO_BADF
  /\ \E fd \in TableFds :
       /\ IsOpenDirectory(FdAt(World, fd))
       /\ wasi_path_rename(World, fd, <<"a", "/", "b">>, fd, <<"b">>).ret
            = ERRNO_SUCCESS

----------------------------------------------------------------------------
(* Creation under a missing parent (Spec) *)

\* The names of a parent directory and of a file in it.
ParentNames == { <<"a">>, <<"b">>, <<"c">> }
ChildNames == { <<"b">>, <<"x">> }
TwoBytes == { <<8, 9>>, <<0, 0>> }

\* parent/child
Under(parent, child) == parent \o <<"/">> \o child

\* The name parent does not exist in the directory of descriptor fd.
Missing(fd, parent) ==
  /\ IsOpenDirectory(FdAt(World, fd))
  /\ wasi_path_filestat_get(World, fd, parent).ret = ERRNO_NOENT

\* path_create_directory(parent), path_open(parent/child, OFLAGS_CREAT),
\* fd_write of data, path_filestat_get(parent/child), each on the state the
\* call before it left: the errnos in order, and the filestat of the last.
CreateWriteStat(fd, parent, child, data) ==
  LET made == wasi_path_create_directory(World, fd, parent)
      opened == wasi_path_open(made.w, fd, Under(parent, child), OFLAGS_CREAT,
                               0, 0)
      wrote == wasi_fd_write(opened.w, opened.opened_fd, <<data>>)
      stat == wasi_path_filestat_get(wrote.w, fd, Under(parent, child))
  IN  [rets |-> <<made.ret, opened.ret, wrote.ret, stat.ret>>,
       nwritten |-> wrote.nwritten, filestat |-> stat.filestat]

\* C11: path_open with OFLAGS_CREAT on parent/child, when parent does not
\* exist, returns ERRNO_NOENT and changes nothing; once path_create_directory
\* has made parent, the same path_open succeeds, and after a write of 2 bytes
\* path_filestat_get on parent/child reports a regular file of size 2.
C11_CreateNeedsItsParent ==
  \A fd \in FdNumbers, parent \in ParentNames, child \in ChildNames :
    Missing(fd, parent) =>
      /\ wasi_path_open(World, fd, Under(parent, child), OFLAGS_CREAT, 0, 0) =
           [w |-> World, ret |-> ERRNO_NOENT, opened_fd |-> NoOpenedFd]
      /\ \A data \in TwoBytes :
           LET r == CreateWriteStat(fd, parent, child, data)
           IN  /\ r.rets = <<ERRNO_SUCCESS, ERRNO_SUCCESS, ERRNO_SUCCESS,
                             ERRNO_SUCCESS>>
               /\ r.nwritten = 2
               /\ r.filestat.filetype = FILETYPE_REGULAR_FILE
               /\ r.filestat.size = 2

\* Witness of C11: the root has lost the name a (it holds b only, a
\* directory), and a create of a/x through the preopen is refused.
C11_Witness ==
  /\ Missing(3, <<"a">>)
  /\ ~Missing(3, <<"b">>)
  /\ wasi_path_open(World, 3, Under(<<"a">>, <<"x">>), OFLAGS_CREAT, 0, 0).ret
       = ERRNO_NOENT
  /\ CreateWriteStat(3, <<"a">>, <<"x">>, <<8, 9>>).filestat.size = 2

----------------------------------------------------------------------------
(* Removal of directories (Spec) *)

\* path_str names an entry (it has a last component) and, through the
\* directory of descriptor fd, resolves to an inode of the given filetype.
NamesA(w, fd, path_str, filetype) ==
  /\ IsOpenDirectory(FdAt(w, fd))
  /\ PathFrom(path_str).ok /\ PathFrom(path_str).parts # <<>>
  /\ wasi_path_filestat_get(w, fd, path_str).ret = ERRNO_SUCCESS
  /\ wasi_path_filestat_get(w, fd, path_str).filestat.filetype = filetype

\* The inode path_str resolves to.
Target(w, fd, path_str) ==
  wasi_path_filestat_get(w, fd, path_str).filestat.ino

\* The state after each entry of the directory at path_str, in the order
\* names, was removed with path_unlink_file (a file) or
\* path_remove_directory (a directory); ok is whether every call succeeded.
RECURSIVE RemoveEntries(_, _, _, _, _)
RemoveEntries(w, fd, path_str, names, ok) ==
  IF names = <<>> THEN [w |-> w, ok |-> ok]
  ELSE LET child == Under(path_str, Head(names))
           r == IF NamesA(w, fd, child, FILETYPE_DIRECTORY)
                  THEN wasi_path_remove_directory(w, fd, child)
                  ELSE wasi_path_unlink_file(w, fd, child)
       IN  RemoveEntries(r.w, fd, path_str, Tail(names),
                         ok /\ r.ret = ERRNO_SUCCESS)

\* The names of the entries of the directory ino, in the order of its Map.
NamesIn(nodes, ino) ==
  [i \in 1..Len(nodes[ino].contents) |-> nodes[ino].contents[i].name]

\* C12: path_remove_directory on a name of a directory that holds an entry
\* returns ERRNO_NOTEMPTY and changes nothing; on a name of a file it
\* returns ERRNO_NOTDIR; on a name of a directory whose entries have all
\* been removed it returns success, and the name then resolves to nothing.
C12_RemoveDirectoryNeedsEmpty ==
  \A fd \in FdNumbers, path_str \in ClaimPaths :
    /\ NamesA(World, fd, path_str, FILETYPE_REGULAR_FILE) =>
         wasi_path_remove_directory(World, fd, path_str).ret = ERRNO_NOTDIR
    /\ NamesA(World, fd, path_str, FILETYPE_DIRECTORY) =>
         LET dir == Target(World, fd, path_str)
             emptied == RemoveEntries(World, fd, path_str,
                                      NamesIn(inodes, dir), TRUE)
             removed == wasi_path_remove_directory(emptied.w, fd, path_str)
         IN  /\ inodes[dir].contents # <<>> =>
                   wasi_path_remove_directory(World, fd, path_str) =
                     [w |-> World, ret |-> ERRNO_NOTEMPTY]
             /\ (emptied.ok /\ emptied.w.inodes[dir].contents = <<>>) =>
                   /\ removed.ret = ERRNO_SUCCESS
                   /\ wasi_path_filestat_get(removed.w, fd, path_str).ret
                        = ERRNO_NOENT

\* Witness of C12: a/b, the only entry of a, was unlinked (the root holds
\* a and nothing else), and a path_remove_directory of a through the
\* preopen now succeeds.
C12_Witness ==
  /\ Len(inodes[RootIno].contents) = 1
  /\ NamesA(World, 3, <<"a">>, FILETYPE_DIRECTORY)
  /\ Target(World, 3, <<"a">>) = DirAIno
  /\ inodes[DirAIno].contents = <<>>
  /\ wasi_path_remove_directory(World, 3, <<"a">>).ret = ERRNO_SUCCESS

----------------------------------------------------------------------------
(* Properties of file content (SpecFile) *)

ClaimData == { <<>>, <<8>>, <<8, 9>>, <<0>> }

Max(a, b) == IF a >= b THEN a ELSE b

\* fd_write of data through fd, then two reads of Len(data) bytes at the
\* offset the cursor had: fd_pread, and fd_seek to it followed by fd_read.
WriteThenRead(fd, data) ==
  LET p == FdAt(World, fd).file_pos
      wrote == wasi_fd_write(World, fd, <<data>>)
      pread == wasi_fd_pread(wrote.w, fd, <<Len(data)>>, p)
      sought == wasi_fd_seek(wrote.w, fd, p, WHENCE_SET)
      read == wasi_fd_read(sought.w, fd, <<Len(data)>>)
  IN  [wrote |-> wrote, pread |-> pread, sought |-> sought, read |-> read]

\* C13: for every descriptor open on a writable file, with its cursor at p,
\* and every byte string d of length n, fd_write of d succeeds and writes n
\* bytes; a read of n bytes at offset p then returns d; the size is then
\* max(old size, p + n); the bytes outside [p, p + n) are as they were, and
\* those between the old end and p are zero.
C13_WriteThenReadRoundTrips ==
  \A fd \in FileFds, d \in ClaimData :
    (FdAt(World, fd).kind = "OpenFile"
       /\ ~inodes[FdAt(World, fd).ino].readonly) =>
      LET p == FdAt(World, fd).file_pos
          n == Len(d)
          old == inodes[FdAt(World, fd).ino].data
          r == WriteThenRead(fd, d)
          new == r.wrote.w.inodes[FdAt(World, fd).ino].data
      IN  /\ r.wrote.ret = ERRNO_SUCCESS /\ r.wrote.nwritten = n
          /\ r.pread.ret = ERRNO_SUCCESS /\ r.pread.data = d
          /\ r.sought.ret = ERRNO_SUCCESS
          /\ r.read.ret = ERRNO_SUCCESS /\ r.read.data = d
          /\ Len(new) = Max(Len(old), p + n)
          /\ \A i \in 1..Len(new) :
               (i <= p \/ i > p + n) =>
                 new[i] = IF i <= Len(old) THEN old[i] ELSE 0

\* Witness of C13: a descriptor has its cursor past the end of a file that
\* holds a byte, and a write of one byte through it leaves a zero between.
C13_Witness ==
  /\ FdAt(World, 4).kind = "OpenFile"
  /\ Len(inodes[FileBIno].data) = 1
  /\ FdAt(World, 4).file_pos = 2
  /\ WriteThenRead(4, <<8>>).wrote.w.inodes[FileBIno].data
       = <<inodes[FileBIno].data[1], 0, 8>>
  /\ WriteThenRead(4, <<8>>).pread.data = <<8>>

----------------------------------------------------------------------------
(* Properties of Path (SpecPath) *)

\* C14: for every string that Path.from accepts, Path.from of the
\* to_path_string of the Path succeeds and gives the same component list
\* and the same trailing-slash flag.
C14_JoinThenParseIsTheSamePath ==
  pathCall.stage = "joined" =>
    /\ PathFrom(pathCall.joined).ok
    /\ PathFrom(pathCall.joined).parts = pathCall.from.parts
    /\ PathFrom(pathCall.joined).is_dir = pathCall.from.is_dir

\* The same for the Paths that have a component.
JoinThenParseIsTheSamePathWithParts ==
  (pathCall.stage = "joined" /\ pathCall.from.parts # <<>>) =>
    /\ PathFrom(pathCall.joined).ok
    /\ PathFrom(pathCall.joined).parts = pathCall.from.parts
    /\ PathFrom(pathCall.joined).is_dir = pathCall.from.is_dir

\* Whether a ".." of the components comes when depth components are held:
\* "" and "." hold nothing, a name holds one more, ".." one fewer.
RECURSIVE Escapes(_, _)
Escapes(components, depth) ==
  IF components = <<>> THEN FALSE
  ELSE IF Head(components) \in { <<>>, <<".">> }
    THEN Escapes(Tail(components), depth)
  ELSE IF Head(components) = <<".", ".">>
    THEN depth = 0 \/ Escapes(Tail(components), depth - 1)
  ELSE Escapes(Tail(components), depth + 1)

\* The inodes under the directory dir: itself and what its entries, and
\* theirs, refer to.
RECURSIVE Subtree(_, _)
Subtree(nodes, seen) ==
  LET more == seen \cup
                UNION { { nodes[i].contents[k].ino :
                            k \in 1..Len(nodes[i].contents) } : i \in seen }
  IN  IF more = seen THEN seen ELSE Subtree(nodes, more)

Directories(nodes) == { i \in DOMAIN nodes : nodes[i].kind = "Directory" }

\* C15: Path.from rejects a string that starts with a slash, that holds a
\* NUL, or in which a ".." comes when no component is held; the Path of an
\* accepted string has no component "", "." or ".."; and what an accepted
\* Path resolves to from a directory is an inode under that directory.
C15_PathStaysInsideTheDirectory ==
  pathCall.stage # "none" =>
    /\ StartsWithSlash(pathCall.str) => ~pathCall.from.ok
    /\ IncludesNul(pathCall.str) => ~pathCall.from.ok
    /\ Escapes(Split(pathCall.str), 0) => ~pathCall.from.ok
    /\ pathCall.from.ok =>
         /\ \A i \in 1..Len(pathCall.from.parts) :
              /\ pathCall.from.parts[i] \notin { <<>>, <<".">>, <<".", ".">> }
              /\ \A k \in 1..Len(pathCall.from.parts[i]) :
                   pathCall.from.parts[i][k] # "/"
         /\ \A dir \in Directories(inodes) :
              get_entry_for_path(inodes, dir, pathCall.from).entry
                \in {NoInode} \cup Subtree(inodes, {dir})

\* Witness of C15: Path.from has refused a/../.., which enters a, leaves it
\* and then leaves the directory it started in.
C15_Witness ==
  /\ pathCall.stage = "from"
  /\ pathCall.str = <<"a", "/", ".", ".", "/", ".", ".">>
  /\ ~pathCall.from.ok
  /\ pathCall.from.ret = ERRNO_NOTCAPABLE

\* The last part of C15 on the trees of Spec, for the paths of ClaimPaths.
ResolvesUnderTheDirectory ==
  \A dir \in Directories(inodes), path_str \in ClaimPaths :
    PathFrom(path_str).ok =>
      get_entry_for_path(inodes, dir, PathFrom(path_str)).entry
        \in {NoInode} \cup Subtree(inodes, {dir})

----------------------------------------------------------------------------
(* Properties of the driving loop (SpecLoop) *)

\* C16: once the guest has raised proc_exit(code) during loopOnce or pollIO,
\* the run of runLoop / runLoopSync makes no further call into the guest
\* (neither loopOnce nor pollIO) and returns the code raised.
C16_ExitStopsTheLoop ==
  \A i \in Runs :
    loop.runs[i].raised =>
      /\ loop.runs[i].callsAfter = 0
      /\ loop.runs[i].pc = "returned"
           => loop.runs[i].returned = loop.runs[i].raisedCode

\* What the loop does keep, in a run during which the host neither called
\* loopOnce() or pollIO() itself nor had another run in progress: after
\* proc_exit it calls the guest at most once more (the pollIO of the branch
\* on LOOP_IDLE, when stdin holds data), and it returns the code raised
\* when it made no such call.
ExitIsFollowedByAtMostOnePollIO ==
  \A i \in Runs :
    loop.runs[i].raised /\ ~loop.runs[i].disturbed =>
      /\ loop.runs[i].callsAfter <= 1
      /\ loop.runs[i].pc \in {"pollIO", "returned", "thrown"}
           \/ (loop.runs[i].pc = "while" /\ ~loop.running)
      /\ loop.runs[i].pc = "returned" /\ loop.runs[i].callsAfter = 0
           => loop.runs[i].returned = loop.runs[i].raisedCode

\* Such a run in which proc_exit was raised comes to its end.
ExitEndsTheRun ==
  \A i \in Runs :
    (loop.runs[i].raised /\ ~loop.runs[i].disturbed)
      ~> (loop.runs[i].pc \in {"returned", "thrown"} \/ loop.runs[i].disturbed)

\* Run i is in progress: runLoop / runLoopSync has not returned or thrown.
InProgress(i) == RunInProgress(loop.runs[i])

\* Every loopOnce call of the runs reports LOOP_IDLE.
LoopOnceReportsIdle ==
  \A i \in Runs : LoopOnce(i) => loop'.runs[i].result = LOOP_IDLE

\* C17: if from some point on every loopOnce call reports LOOP_IDLE, every
\* run of runLoop / runLoopSync comes to its end, whatever stdin holds and
\* whether or not the guest reads it.
C17_IdleLoopReturns ==
  <>[][LoopOnceReportsIdle]_vars => \A i \in Runs : []<>(~InProgress(i))

\* The same when, besides, the host makes no call from that point on: only
\* the runs take steps.  The loop does not keep it either.
HostMakesNoCall ==
  \E i \in Runs : LoopWhile(i) \/ LoopOnce(i) \/ LoopPollIO(i)
IdleLoopLeftAloneReturns ==
  <>[][LoopOnceReportsIdle /\ HostMakesNoCall]_vars
    => \A i \in Runs : []<>(~InProgress(i))

\* What the loop does keep: it comes to its end when, besides, stdin ends
\* up holding no unread data.
IdleLoopReturnsOnceStdinIsDrained ==
  (<>[][LoopOnceReportsIdle]_vars /\ <>[](~PollableStdin_hasData(stdin)))
    => \A i \in Runs : []<>(~InProgress(i))

----------------------------------------------------------------------------
(* Properties of poll_oneoff (SpecPoll) *)

\* The user tags of the subscriptions a property is checked on.
ClaimTags == {Tag(1), Tag(2)}

\* A subscription on one of the two clocks of the shim whose deadline is
\* absolute and not later than the reading now of its clock.
IsClock(sub) ==
  /\ sub.eventtype = EVENTTYPE_CLOCK
  /\ sub.clockid \in {CLOCKID_REALTIME, CLOCKID_MONOTONIC}
AbsolutePast(sub, now) ==
  /\ IsClock(sub)
  /\ HasFlag(sub.flags, SUBCLOCKFLAGS_SUBSCRIPTION_CLOCK_ABSTIME)
  /\ sub.timeout <= getNow(sub.clockid, now)

\* The one event of an expired clock subscription with tag userdata.
ClockEvent(userdata) == Event(userdata, ERRNO_SUCCESS, EVENTTYPE_CLOCK, 0, 0)

\* C18: poll_oneoff with exactly one subscription, on the realtime or the
\* monotonic clock, absolute and with a deadline not later than the clock's
\* reading, returns success and reports exactly one event: a clock event
\* with no error that carries the subscription's user tag.
C18_PastAbsoluteDeadlineFires ==
  \A sub \in ClockSubscriptions, userdata \in ClaimTags, d \in ClockDelays :
    AbsolutePast(sub, clock) =>
      \A nows \in LoopReadings(<<sub>>, clock, d) :
        LET r == wasi_poll_oneoff(World,
                                  << [sub EXCEPT !.userdata = userdata] >>,
                                  nows, Advance(clock, d))
        IN  /\ r.ret = ERRNO_SUCCESS
            /\ r.nevents = 1
            /\ r.events = << ClockEvent(userdata) >>

\* The guest has polled with one absolute clock subscription whose deadline,
\* later than the start of the clock, the clock had just reached, and got
\* its event.
C18_Witness ==
  /\ pollCall.op = "poll_oneoff"
  /\ Len(pollCall.subscriptions) = 1
  /\ AbsolutePast(pollCall.subscriptions[1], pollCall.now[1])
  /\ pollCall.subscriptions[1].timeout = 1
  /\ getNow(pollCall.subscriptions[1].clockid, pollCall.later) = 1
  /\ pollCall.ret = ERRNO_SUCCESS
  /\ pollCall.events = << ClockEvent(Tag(1)) >>

\* The deadline of a clock subscription: its timeout when that is
\* absolute, and else the reading of its clock plus its timeout.
Deadline(sub, now) ==
  IF HasFlag(sub.flags, SUBCLOCKFLAGS_SUBSCRIPTION_CLOCK_ABSTIME)
    THEN sub.timeout
    ELSE getNow(sub.clockid, now) + sub.timeout

\* The positions of the clock-expiry events and of the fd events.
Expiries(events) ==
  { i \in 1..Len(events) :
      events[i].type = EVENTTYPE_CLOCK /\ events[i].error = ERRNO_SUCCESS }
FdEvents(events) ==
  { i \in 1..Len(events) :
      events[i].type \in {EVENTTYPE_FD_READ, EVENTTYPE_FD_WRITE} }
ClockPositions(subscriptions) ==
  { i \in 1..Len(subscriptions) :
      subscriptions[i].eventtype = EVENTTYPE_CLOCK }

\* At most one clock-expiry event, alone among the events, tagged as a
\* clock subscription of the batch whose deadline no other clock
\* subscription of the batch precedes; none next to an fd event.  The
\* deadline of a relative subscription counts from the reading of its
\* clock at that subscription, nows[i].
ExpiryIsTheEarliestAlone(subscriptions, nows, events) ==
  /\ Cardinality(Expiries(events)) <= 1
  /\ Expiries(events) # {} => Len(events) = 1
  /\ FdEvents(events) # {} => Expiries(events) = {}
  /\ \A e \in Expiries(events) :
       \E i \in ClockPositions(subscriptions) :
         /\ events[e].userdata = subscriptions[i].userdata
         /\ \A j \in ClockPositions(subscriptions) :
              Deadline(subscriptions[i], nows[i])
                <= Deadline(subscriptions[j], nows[j])

\* No poll_oneoff has been made yet; a poll_oneoff leaves the descriptors
\* and stdin as they are, so these states hold every table, stdin and
\* reading of the clocks that a batch can meet.
BeforePolling == pollCall = NoPollCall

\* C19: for every batch, poll_oneoff emits at most one clock-expiry event,
\* only when the batch produced no other event, tagged as a clock
\* subscription whose deadline is the earliest among the clock
\* subscriptions of the batch; when an fd event fired it emits none.
C19_OneExpiryOfTheEarliestDeadline ==
  /\ pollCall.op = "poll_oneoff" =>
       ExpiryIsTheEarliestAlone(pollCall.subscriptions, pollCall.now,
                                pollCall.events)
  /\ BeforePolling =>
       \A subscriptions \in Batches, d \in ClockDelays :
         \A nows \in LoopReadings(subscriptions, clock, d) :
           ExpiryIsTheEarliestAlone(
             subscriptions, nows,
             wasi_poll_oneoff(World, subscriptions, nows,
                              Advance(clock, d)).events)

\* The guest has polled with two timers of different deadlines, the later
\* one first in the batch, and got the one event of the earlier one.
C19_Witness ==
  /\ pollCall.op = "poll_oneoff"
  /\ Len(pollCall.subscriptions) = 2
  /\ ClockPositions(pollCall.subscriptions) = {1, 2}
  /\ Deadline(pollCall.subscriptions[2], pollCall.now[2])
       < Deadline(pollCall.subscriptions[1], pollCall.now[1])
  /\ pollCall.events = << ClockEvent(Tag(2)) >>

\* The guest has polled with a timer whose deadline had passed next to a
\* read of stdin that was ready, and got the fd event only.
FdEventSuppressesExpiry ==
  /\ pollCall.op = "poll_oneoff"
  /\ Len(pollCall.subscriptions) = 2
  /\ AbsolutePast(pollCall.subscriptions[1], pollCall.now[1])
  /\ Len(pollCall.events) = 1
  /\ pollCall.events[1].type = EVENTTYPE_FD_READ

----------------------------------------------------------------------------
(* Properties of the readiness of stdin (SpecStdin) *)

\* The bytes pushed to stdin and accepted that no fd_read has returned.
Unread == Len(pushed) - Len(consumed)

\* The event poll_oneoff is to report for a read subscription on stdin.
StdinEvents ==
  IF Unread > 0 \/ stdin.closed
    THEN << Event(Tag(1), ERRNO_SUCCESS, EVENTTYPE_FD_READ, Unread,
                  IF stdin.closed /\ Unread = 0
                    THEN EVENTRWFLAGS_FD_READWRITE_HANGUP ELSE 0) >>
    ELSE <<>>

\* C20: in every reachable state of PollableStdin the probe for reading is
\* ready exactly when unread bytes are buffered or stdin is closed, its
\* byte count is the number of bytes pushed and accepted that fd_read has
\* not returned, its hang-up flag is set exactly when stdin is closed and
\* no unread byte remains; poll_oneoff copies the three into the event of
\* an fd-read subscription on descriptor 0.
C20_ProbeTellsUnreadAndHangup ==
  /\ PollableStdin_fd_poll(stdin, EVENTTYPE_FD_READ).ready
       <=> (Unread > 0 \/ stdin.closed)
  /\ PollableStdin_fd_poll(stdin, EVENTTYPE_FD_READ).nbytes = Unread
  /\ (PollableStdin_fd_poll(stdin, EVENTTYPE_FD_READ).flags
         = EVENTRWFLAGS_FD_READWRITE_HANGUP) <=> (stdin.closed /\ Unread = 0)
  /\ PollableStdin_fd_poll(stdin, EVENTTYPE_FD_READ).flags
       \in {0, EVENTRWFLAGS_FD_READWRITE_HANGUP}
  /\ wasi_poll_oneoff(World, StdinBatch(EVENTTYPE_FD_READ),
                      Steady(StdinBatch(EVENTTYPE_FD_READ), clock),
                      clock).events
       = StdinEvents
  /\ wasi_poll_oneoff(World, StdinBatch(EVENTTYPE_FD_READ),
                      Steady(StdinBatch(EVENTTYPE_FD_READ), clock),
                      clock).ret
       = ERRNO_SUCCESS

\* The guest has read part of what was pushed, the host has closed stdin,
\* and the last poll_oneoff reported what the state calls for: the one byte
\* left, with no hang-up.
OneByteLeftIsNoHangup ==
  /\ stdin.closed
  /\ pushed = <<1, 2, 3>>
  /\ consumed = <<1, 2>>
  /\ pollCall.op = "poll_oneoff"
  /\ pollCall.events = << Event(Tag(1), ERRNO_SUCCESS, EVENTTYPE_FD_READ, 1, 0) >>
  /\ pollCall.events = StdinEvents

\* The guest has read all that was pushed to stdin, which the host has
\* closed, and the poll_oneoff made after that has reported the hang-up with
\* no byte to read.
C20_Witness ==
  /\ pushed = <<1, 2, 3>>
  /\ consumed = <<1, 2, 3>>
  /\ pollCall.op = "poll_oneoff"
  /\ pollCall.events =
       << Event(Tag(1), ERRNO_SUCCESS, EVENTTYPE_FD_READ, 0,
                EVENTRWFLAGS_FD_READWRITE_HANGUP) >>

(* Properties of the iovec loops of fd_read, fd_write, fd_pread, fd_pwrite
   (SpecFile) *)

\* The WASI object built over the same handles and one more, a FailingFd.
Embedded == [World EXCEPT !.fds = Append(@, FailingFd)]
\* Every descriptor number of w, and the first number past its table
IoFds(w) == 0 .. Len(w.fds)
SegmentSizes == 0 .. 2
SizeLists == UNION { [1..n -> SegmentSizes] : n \in 0..2 }
Segments == { <<>>, <<8>>, <<8, 9>> }
SegmentLists == UNION { [1..n -> Segments] : n \in 0..2 }
RECURSIVE SumLen(_)
SumLen(iovecs) ==
  IF iovecs = <<>> THEN 0 ELSE Len(Head(iovecs)) + SumLen(Tail(iovecs))

\* What a reading call returns over the list p followed by one more segment,
\* given rp, what it returns over p, and h, what the handle returns for the
\* segment in the state rp left: rp itself when p ended short or failed.
ReadsOneMore(rp, rl, requested, h) ==
  IF rp.ret # ERRNO_SUCCESS \/ rp.nread < requested
    THEN rl = rp
  ELSE IF h.ret # ERRNO_SUCCESS
    THEN rl = [w |-> h.w, ret |-> h.ret, nread |-> rp.nread, data |-> rp.data]
  ELSE rl = [w |-> h.w, ret |-> ERRNO_SUCCESS,
             nread |-> rp.nread + Len(h.data), data |-> rp.data \o h.data]

WritesOneMore(rp, rl, requested, h) ==
  IF rp.ret # ERRNO_SUCCESS \/ rp.nwritten < requested
    THEN rl = rp
  ELSE IF h.ret # ERRNO_SUCCESS
    THEN rl = [w |-> h.w, ret |-> h.ret, nwritten |-> rp.nwritten]
  ELSE rl = [w |-> h.w, ret |-> ERRNO_SUCCESS,
             nwritten |-> rp.nwritten + h.nwritten]

\* A call on a descriptor that is not open: ERRNO_BADF, no count written
BadFd(w, r, count) == r.ret = ERRNO_BADF /\ count = NotWritten /\ r.w = w

ReadInOrder(w, fd) ==
  /\ wasi_fd_read(w, fd, <<>>)
       = [w |-> w, ret |-> ERRNO_SUCCESS, nread |-> 0, data |-> <<>>]
  /\ \A p \in SizeLists, s \in SegmentSizes :
       ReadsOneMore(wasi_fd_read(w, fd, p), wasi_fd_read(w, fd, Append(p, s)),
                    Sum(p), Fd_fd_read(wasi_fd_read(w, fd, p).w, fd, s))

WriteInOrder(w, fd) ==
  /\ wasi_fd_write(w, fd, <<>>)
       = [w |-> w, ret |-> ERRNO_SUCCESS, nwritten |-> 0]
  /\ \A p \in SegmentLists, s \in Segments :
       WritesOneMore(wasi_fd_write(w, fd, p),
                     wasi_fd_write(w, fd, Append(p, s)), SumLen(p),
                     Fd_fd_write(wasi_fd_write(w, fd, p).w, fd, s))

\* The handle's fd_pread leaves the state alone: its result with the state
PreadOf(w, r) == [w |-> w, ret |-> r.ret, data |-> r.data]

PreadInOrder(w, fd, offset) ==
  /\ wasi_fd_pread(w, fd, <<>>, offset)
       = [w |-> w, ret |-> ERRNO_SUCCESS, nread |-> 0, data |-> <<>>]
  /\ \A p \in SizeLists, s \in SegmentSizes :
       ReadsOneMore(wasi_fd_pread(w, fd, p, offset),
                    wasi_fd_pread(w, fd, Append(p, s), offset), Sum(p),
                    PreadOf(w, Fd_fd_pread(w, FdAt(w, fd), s, offset + Sum(p))))

PwriteInOrder(w, fd, offset) ==
  /\ wasi_fd_pwrite(w, fd, <<>>, offset)
       = [w |-> w, ret |-> ERRNO_SUCCESS, nwritten |-> 0]
  /\ \A p \in SegmentLists, s \in Segments :
       WritesOneMore(wasi_fd_pwrite(w, fd, p, offset),
                     wasi_fd_pwrite(w, fd, Append(p, s), offset), SumLen(p),
                     Fd_fd_pwrite(wasi_fd_pwrite(w, fd, p, offset).w,
                                  FdAt(w, fd), s, offset + SumLen(p)))

IovecsInOrder(w, fd) ==
  IF Live(w, fd)
    THEN /\ ReadInOrder(w, fd)
         /\ WriteInOrder(w, fd)
         /\ \A offset \in FileOffsets :
              PreadInOrder(w, fd, offset) /\ PwriteInOrder(w, fd, offset)
    ELSE /\ \A p \in SizeLists, offset \in FileOffsets :
              /\ BadFd(w, wasi_fd_read(w, fd, p), wasi_fd_read(w, fd, p).nread)
              /\ BadFd(w, wasi_fd_pread(w, fd, p, offset),
                       wasi_fd_pread(w, fd, p, offset).nread)
         /\ \A p \in SegmentLists, offset \in FileOffsets :
              /\ BadFd(w, wasi_fd_write(w, fd, p),
                       wasi_fd_write(w, fd, p).nwritten)
              /\ BadFd(w, wasi_fd_pwrite(w, fd, p, offset),
                       wasi_fd_pwrite(w, fd, p, offset).nwritten)

\* C21: fd_read, fd_write, fd_pread and fd_pwrite take the segments of their
\* list in order: over the empty list they transfer nothing and succeed, and
\* over a list with one more segment they return what they return over the
\* list when a segment of it was short or failed (the further segment is not
\* touched), else they pass the further segment to the handle, at the offset
\* advanced by the bytes transferred for fd_pread and fd_pwrite, and report
\* the sum of the bytes transferred, with the handle's errno and the count
\* reached before it when the handle fails. A descriptor that is not open
\* gives ERRNO_BADF and no count.
C21_IovecsInOrderUntilShortOrFailing ==
  /\ \A fd \in IoFds(World) : IovecsInOrder(World, fd)
  /\ \A fd \in IoFds(Embedded) : IovecsInOrder(Embedded, fd)

\* The failing segment after a successful one: the embedder's handle takes
\* the first segment of two bytes and fails the second, and each of the four
\* calls reports ERRNO_INVAL with the count 2.
FailureKeepsTheCount ==
  LET fd == Len(fds)
  IN  /\ wasi_fd_read(Embedded, fd, <<2, 1>>).ret = ERRNO_INVAL
      /\ wasi_fd_read(Embedded, fd, <<2, 1>>).nread = 2
      /\ wasi_fd_write(Embedded, fd, << <<8, 9>>, <<8>> >>).ret = ERRNO_INVAL
      /\ wasi_fd_write(Embedded, fd, << <<8, 9>>, <<8>> >>).nwritten = 2
      /\ wasi_fd_pread(Embedded, fd, <<2, 1>>, 0).ret = ERRNO_INVAL
      /\ wasi_fd_pread(Embedded, fd, <<2, 1>>, 0).nread = 2
      /\ wasi_fd_pwrite(Embedded, fd, << <<8, 9>>, <<8>> >>, 0).ret = ERRNO_INVAL
      /\ wasi_fd_pwrite(Embedded, fd, << <<8, 9>>, <<8>> >>, 0).nwritten = 2

\* Two descriptors are open on the file, which holds the two bytes written
\* through one of them; descriptor 4 has its cursor on the second byte, and
\* a read of two segments through it ends in the first, short by one byte.
C21_Witness ==
  /\ Live(World, 4) /\ Live(World, 5)
  /\ FdAt(World, 4).kind = "OpenFile"
  /\ FdAt(World, 4).file_pos = 1
  /\ inodes[FdAt(World, 4).ino].data = <<8, 9>>
  /\ wasi_fd_read(World, 4, <<2, 1>>).nread = 1
  /\ wasi_fd_read(World, 4, <<2, 1>>).data = <<9>>
  /\ wasi_fd_read(World, 4, <<2, 1>>).ret = ERRNO_SUCCESS
  /\ wasi_fd_pread(World, 5, <<1, 2>>, 0).nread = 2
  /\ FailureKeepsTheCount

----------------------------------------------------------------------------
(* path_link of a directory (Spec) *)

LinkPaths ==
  PathStrings \cup { <<>>, <<".">>, <<"x">>, <<"x", "/">>, <<"a", "/", "x">>,
                     <<"b", "/", "x">>, <<"a", "/", "b", "/", "x">>,
                     <<".", ".", "/", "x">>, <<"/", "x">> }

\* path_str resolves through descriptor fd to a directory
ResolvesToDirectory(w, fd, path_str) ==
  LET lk == Fd_path_lookup(w.inodes, FdAt(w, fd), path_str)
  IN  /\ lk.inode_obj # NoInode
      /\ Filetype(w.inodes[lk.inode_obj]) = FILETYPE_DIRECTORY

\* The last component of path_str and the directory holding it, as
\* path_link resolves them
Destination(w, fd, path_str) ==
  get_parent_dir_and_entry_for_path(w.inodes, FdAt(w, fd).ino,
                                    PathFrom(path_str), TRUE)

\* path_str is a path without trailing slash whose last component is a name
\* in a directory that exists
NamesAPlace(w, fd, path_str) ==
  /\ PathFrom(path_str).ok
  /\ ~PathFrom(path_str).is_dir
  /\ Destination(w, fd, path_str).parent_entry # NoInode
  /\ Destination(w, fd, path_str).filename # <<>>

\* The errno of path_link for a directory, by what is at the destination
DirectoryLinkErrno(w, new_fd, new_path, ret) ==
  IF ~IsOpenDirectory(FdAt(w, new_fd)) THEN ret = ERRNO_NOTSUP
  ELSE IF ~NamesAPlace(w, new_fd, new_path)
    THEN ret \in {ERRNO_NOENT, ERRNO_NOTDIR, ERRNO_NOTCAPABLE, ERRNO_INVAL}
  ELSE IF Destination(w, new_fd, new_path).entry = NoInode
    THEN ret = ERRNO_PERM
  ELSE IF ResolvesToDirectory(w, new_fd, new_path)
    THEN ret = ERRNO_EXIST
  ELSE ret = ERRNO_NOTDIR

\* C22 as stated: path_link whose source path resolves to a directory
\* returns ERRNO_PERM whatever is at the destination, and changes nothing.
C22_DirectoryLinkIsPermissionDenied ==
  \A old_fd \in FdNumbers, new_fd \in FdNumbers :
    \A old_path \in LinkPaths, new_path \in LinkPaths :
      (Live(World, old_fd) /\ Live(World, new_fd)
       /\ ResolvesToDirectory(World, old_fd, old_path)) =>
        wasi_path_link(World, old_fd, old_path, new_fd, new_path)
          = [w |-> World, ret |-> ERRNO_PERM]

\* C22, amended: path_link whose source path resolves to a directory never
\* succeeds and changes nothing; it returns ERRNO_PERM when the destination
\* names no entry in a directory that exists, ERRNO_EXIST when the
\* destination is a directory, ERRNO_NOTDIR when it is a file, the errno
\* of the resolution when the destination path names no place, and
\* ERRNO_NOTSUP when the destination's descriptor is not a directory.
C22_DirectoryLinkIsRefused ==
  \A old_fd \in FdNumbers, new_fd \in FdNumbers :
    \A old_path \in LinkPaths, new_path \in LinkPaths :
      (Live(World, old_fd) /\ Live(World, new_fd)
       /\ ResolvesToDirectory(World, old_fd, old_path)) =>
        /\ wasi_path_link(World, old_fd, old_path, new_fd, new_path).w = World
        /\ wasi_path_link(World, old_fd, old_path, new_fd, new_path).ret
             # ERRNO_SUCCESS
        /\ DirectoryLinkErrno(
             World, new_fd, new_path,
             wasi_path_link(World, old_fd, old_path, new_fd, new_path).ret)

\* The guest has made the directory b beside a and its file a/b: linking
\* the directory a is refused with ERRNO_PERM at the free name x, with
\* ERRNO_EXIST over the directory b and with ERRNO_NOTDIR over the file a/b.
C22_Witness ==
  /\ ResolvesToDirectory(World, 3, <<"a">>)
  /\ ResolvesToDirectory(World, 3, <<"b">>)
  /\ wasi_path_link(World, 3, <<"a">>, 3, <<"x">>).ret = ERRNO_PERM
  /\ wasi_path_link(World, 3, <<"a">>, 3, <<"b">>).ret = ERRNO_EXIST
  /\ wasi_path_link(World, 3, <<"a">>, 3, <<"a", "/", "b">>).ret = ERRNO_NOTDIR

----------------------------------------------------------------------------
(* The parent of a directory (Spec) *)

\* The d_ino of the entry ".." that fd_readdir_single gives for dir
DotDotIno(nodes, dir) == OpenDirectory_fd_readdir_single(nodes, dir, 1).dirent.d_ino

\* C23: for every directory D that is an entry of a directory P, the entry
\* ".." enumerated for D at cookie 1 carries the inode id of P; the reserved
\* id 0 is reported for a root only.
C23_DotDotIsTheParent ==
  \A p \in DOMAIN inodes :
    inodes[p].kind = "Directory" =>
      \A i \in 1..Len(inodes[p].contents) :
        inodes[inodes[p].contents[i].ino].kind = "Directory" =>
          DotDotIno(inodes, inodes[p].contents[i].ino) = p


\* The parent reference is set when a Directory is constructed over its
\* entries and by nothing else: no call changes the parent of a node, and a
\* node made by a call has none.
ParentIsSetAtConstructionOnly ==
  [][\A i \in DOMAIN inodes' :
       inodes'[i].parent = IF i \in DOMAIN inodes THEN inodes[i].parent
                           ELSE NoInode]_vars

----------------------------------------------------------------------------
(* path_open of a path with a trailing slash (Spec) *)

SlashPaths == { <<"a", "/">>, <<"b", "/">>, <<"x", "/">>, <<"a", "/", "b", "/">>,
                <<"a", "/", "x", "/">> }
AllOflags == 0 .. (OFLAGS_CREAT + OFLAGS_DIRECTORY + OFLAGS_EXCL + OFLAGS_TRUNC)

\* The handle path_open returned in r is a directory's
OpenedADirectory(r) ==
  /\ r.opened_fd # NoOpenedFd
  /\ FdAt(r.w, r.opened_fd).kind = "OpenDirectory"
  /\ r.w.inodes[FdAt(r.w, r.opened_fd).ino].kind = "Directory"

\* What path_open returned for a path with a trailing slash: on success a
\* directory's handle, and ERRNO_NOTDIR when the path without the slash
\* resolves to a file.
SlashOpened(w, fd, path_str, r) ==
  /\ r.ret = ERRNO_SUCCESS => OpenedADirectory(r)
  /\ LET lk == Fd_path_lookup(w.inodes, FdAt(w, fd), SubSeq(path_str, 1, Len(path_str) - 1))
     IN  (lk.inode_obj # NoInode /\ w.inodes[lk.inode_obj].kind = "File")
           => r.ret = ERRNO_NOTDIR

\* C24: path_open on a path ending in "/" opens a directory whenever it
\* succeeds, for every combination of open flags, and fails with
\* ERRNO_NOTDIR when the path resolves to a regular file.
C24_TrailingSlashOpensADirectory ==
  \A fd \in FdNumbers, path_str \in SlashPaths, oflags \in AllOflags :
    (Live(World, fd) /\ IsOpenDirectory(FdAt(World, fd))) =>
      SlashOpened(World, fd, path_str,
                  wasi_path_open(World, fd, path_str, oflags, 0, 0))

\* The same when the open flags do not ask for a regular file to be made:
\* without OFLAGS_CREAT, or with OFLAGS_DIRECTORY.
TrailingSlashOpensADirectoryUnlessMakingAFile ==
  \A fd \in FdNumbers, path_str \in SlashPaths, oflags \in AllOflags :
    (/\ Live(World, fd) /\ IsOpenDirectory(FdAt(World, fd))
     /\ (~HasFlag(oflags, OFLAGS_CREAT) \/ HasFlag(oflags, OFLAGS_DIRECTORY))) =>
      SlashOpened(World, fd, path_str,
                  wasi_path_open(World, fd, path_str, oflags, 0, 0))


\* path_open of x/ with OFLAGS_CREAT alone makes the regular file x and
\* opens it.
SlashCreateOpensAFile ==
  LET r == wasi_path_open(World, 3, <<"x", "/">>, OFLAGS_CREAT, 0, 0)
  IN  /\ r.ret = ERRNO_SUCCESS
      /\ FdAt(r.w, r.opened_fd).kind = "OpenFile"
      /\ Fd_path_lookup(r.w.inodes, FdAt(r.w, 3), <<"x">>).inode_obj
           = FdAt(r.w, r.opened_fd).ino

----------------------------------------------------------------------------
(* SpecConsole: the guest writing to stdout and stderr *)

\* "\n", "a", and the two bytes of U+00E9
ConsoleBytes == {10, 97, 195, 169}
ConsoleFds == {1, 2}
ConsoleSegments == UNION { [1..n -> ConsoleBytes] : n \in 0..2 }
ConsoleWrites ==
  { <<>> } \cup { <<data>> : data \in ConsoleSegments }
  \cup { << <<b>>, <<c>> >> : b \in ConsoleBytes, c \in ConsoleBytes }

WrittenBytes(w) == Len(w.consoles[StdoutIno].written) + Len(w.consoles[StderrIno].written)

\* the guest's fd_write(fd, iovecs) on stdout or stderr
ConsoleWrite ==
  \E fd \in ConsoleFds, iovecs \in ConsoleWrites :
    /\ ~fault
    /\ WrittenBytes(wasi_fd_write(World, fd, iovecs).w) <= MaxWritten
    /\ Returns(wasi_fd_write(World, fd, iovecs))
    /\ UNCHANGED <<pushed, consumed, registered, stdinCall, pathCall, loop,
                   clock, pollCall>>

NextConsole == ConsoleWrite

SpecConsole == Init /\ [][NextConsole]_vars

----------------------------------------------------------------------------
(* Properties of the line-buffered console (SpecConsole) *)

\* The positions of the newlines of a text, and the k-th of them
Newlines(text) == { i \in 1..Len(text) : text[i] = 10 }
NthNewline(text, k) ==
  CHOOSE i \in Newlines(text) : Cardinality({ j \in Newlines(text) : j <= i }) = k

\* The newline-terminated segments of a text, without their newline
TerminatedSegments(text) ==
  [k \in 1..Cardinality(Newlines(text)) |->
     SubSeq(text, IF k = 1 THEN 1 ELSE NthNewline(text, k - 1) + 1,
            NthNewline(text, k) - 1)]

\* The text after the last newline
AfterLastNewline(text) ==
  SubSeq(text,
         IF Newlines(text) = {} THEN 1
         ELSE NthNewline(text, Cardinality(Newlines(text))) + 1,
         Len(text))

\* The sink of c has received the lines of text, and c holds the rest
DeliveredLinesOf(c, text) ==
  /\ c.sink = TerminatedSegments(text)
  /\ c.line_buf = AfterLastNewline(text)

\* C25: whatever the writes the bytes came in, the lines the sink of a
\* console has received are the newline-terminated segments of the text of
\* all the bytes written, in order, once, without the newline; the text
\* after the last newline is held in line_buf; and every fd_write returns
\* success with the number of bytes of its segments.
C25_SinkGetsTheTerminatedLines ==
  /\ \A i \in DOMAIN consoles :
       DeliveredLinesOf(consoles[i],
                        TextDecoder_decode(0, consoles[i].written).text)
  /\ \A fd \in ConsoleFds, iovecs \in ConsoleWrites :
       /\ wasi_fd_write(World, fd, iovecs).ret = ERRNO_SUCCESS
       /\ wasi_fd_write(World, fd, iovecs).nwritten = SumLen(iovecs)

\* The guest has written the two bytes of U+00E9, a newline and an a to
\* stdout: the sink has received the line of one character, and the
\* console holds the a back.
C25_Witness ==
  /\ consoles[StdoutIno].written = <<195, 169, 10, 97>>
  /\ consoles[StdoutIno].sink = << <<233>> >>
  /\ consoles[StdoutIno].line_buf = <<97>>
  /\ consoles[StderrIno].sink = <<>>

----------------------------------------------------------------------------
(* Inode ids (Spec) *)

\* The ids of the device handles of the table
DeviceInos ==
  { fds[i].ino : i \in { j \in 1..Len(fds) :
                         fds[j] # Undefined
                         /\ fds[j].kind \in {"PollableStdin", "ConsoleStdout"} } }

\* Every id in use was issued: it lies in 1 .. next_ino - 1, a device and a
\* file or directory do not share one, and what fd_filestat_get and
\* path_filestat_get report for a node is its id.
IdsWereIssued ==
  /\ \A i \in DOMAIN inodes \cup DeviceInos : 1 <= i /\ i < next_ino
  /\ DOMAIN inodes \cap DeviceInos = {}
  /\ \A i \in DOMAIN inodes : Stat(inodes, i).ino = i /\ Stat(inodes, i).ino # root_ino

\* C26: ids are issued increasing from 1 and never again: every id in use
\* is at least 1 and below next_ino, the devices' ids differ from the ids
\* of files and directories, next_ino never decreases, a node made by a call
\* gets an id that was not issued before the call, and an id goes on naming
\* the node it named (a file stays that file, a directory that directory)
\* as long as the node lives.
C26_InodeIdsAreNeverReused ==
  /\ IdsWereIssued
  /\ [][/\ IdsWereIssued'
        /\ next_ino' >= next_ino
        /\ \A i \in DOMAIN inodes' \ DOMAIN inodes :
             next_ino <= i /\ i < next_ino'
        /\ \A i \in DOMAIN inodes' \cap DOMAIN inodes :
             inodes'[i].kind = inodes[i].kind]_vars

\* A node the guest made exists no more (removed, or replaced by a rename):
\* its id 7 is gone for good, the next node gets 8, and the file b, under
\* no name any more while descriptor 4 is open on it, still has the id 2.
C26_Witness ==
  /\ next_ino = FirstFreeIno + 1
  /\ FirstFreeIno \notin DOMAIN inodes
  /\ Live(World, 4)
  /\ FdAt(World, 4).ino = FileBIno
  /\ \A d \in DOMAIN inodes : MapGet(inodes[d].contents, <<"b">>) # FileBIno
  /\ Fd_fd_filestat_get(World, FdAt(World, 4)).filestat.ino = FileBIno

----------------------------------------------------------------------------
(* stop() during runLoop (FairSpecLoop) *)

\* stop() has been called during run i, and neither runLoop() nor
\* runLoopSync() has been called since while the run was in progress.
StoppedForGood(i) == loop.runs[i].stopped /\ ~loop.runs[i].restarted

\* Since stop() was called during the run, loopOnce has been called at
\* most once.
AtMostOneLoopOnceAfterStop ==
  \A i \in Runs : loop.runs[i].stopped => loop.runs[i].oncesAfterStop <= 1

\* The same unless a run was started after the stop(), and pollIO(0) has
\* been called at most once.
AtMostOneIterationAfterStop ==
  \A i \in Runs :
    StoppedForGood(i) =>
      /\ loop.runs[i].oncesAfterStop <= 1
      /\ loop.runs[i].pollsAfterStop <= 1
      /\ loop.runs[i].pollsAfterStop <= loop.runs[i].oncesAfterStop

\* The run has returned the exit code
ReturnedTheExitCode(i) ==
  loop.runs[i].pc = "returned" /\ loop.runs[i].returned = loop.exitCode

\* stop() has been called during the run that is in progress.  Once the
\* run has ended the host may change the exit code by a loopOnce() or
\* pollIO() of its own.
StoppedInProgress(i) == loop.runs[i].stopped /\ InProgress(i)

RestartedAfterStop ==
  \E i \in Runs :
    /\ loop.runs[i].stopped
    /\ loop.runs[i].restarted
    /\ loop.runs[i].oncesAfterStop = 2

----------------------------------------------------------------------------
(* path_rename (Spec) *)

RenamePaths ==
  PathStrings \cup { <<"x">>, <<"a", "/", "x">>, <<"b", "/", "x">>,
                     <<".", "/", "a">> }

\* What path_str resolves to through descriptor fd, NoInode when to nothing
ResolvesTo(w, fd, path_str) ==
  Fd_path_lookup(w.inodes, FdAt(w, fd), path_str).inode_obj

\* The directory and the name that path_str names through descriptor fd
\* (no trailing slash taken into account)
PlaceOf(w, fd, path_str) ==
  [dir |-> Destination(w, fd, path_str).parent_entry,
   name |-> Destination(w, fd, path_str).filename]

\* The directories once the entry at place from has been moved to place to
Moved(nodes, from, to) ==
  LET taken == [nodes EXCEPT ![from.dir].contents = MapDelete(@, from.name)]
  IN  [taken EXCEPT ![to.dir].contents =
         MapSet(@, to.name, MapGet(nodes[from.dir].contents, from.name))]

\* A successful rename has moved the entry: new_path resolves to the node
\* old_path resolved to, old_path resolves to nothing, and the nodes are
\* what they were but for the name taken from one directory and set in the
\* other (the node moved keeps its id, its bytes and its entries).
RenameMoved(w, fd, old_path, new_fd, new_path, r) ==
  /\ ResolvesTo(w, fd, old_path) # NoInode
  /\ ResolvesTo(r.w, new_fd, new_path) = ResolvesTo(w, fd, old_path)
  /\ ResolvesTo(r.w, fd, old_path) = NoInode
  /\ r.w.inodes = Moved(w.inodes, PlaceOf(w, fd, old_path),
                        PlaceOf(w, new_fd, new_path))
  /\ r.w.fds = w.fds

\* What a rename may replace: nothing, a regular file, or an empty
\* directory when the source is a directory.
Replaceable(w, source, target) ==
  \/ target = NoInode
  \/ w.inodes[target].kind = "File"
  \/ /\ w.inodes[target].kind = "Directory"
     /\ w.inodes[source].kind = "Directory"
     /\ Len(w.inodes[target].contents) = 0

\* The renames the claim is about: both descriptors are directories, the
\* two paths name different places, and the call succeeds.
Renamed(w, fd, old_path, new_fd, new_path) ==
  /\ Live(w, fd) /\ Live(w, new_fd)
  /\ IsOpenDirectory(FdAt(w, fd)) /\ IsOpenDirectory(FdAt(w, new_fd))
  /\ PathFrom(old_path).ok /\ PathFrom(new_path).ok
  /\ PlaceOf(w, fd, old_path) # PlaceOf(w, new_fd, new_path)
  /\ wasi_path_rename(w, fd, old_path, new_fd, new_path).ret = ERRNO_SUCCESS

\* C28: after a successful path_rename(A, B) of different places, B
\* resolves to the node A resolved to, A resolves to nothing, what was at B
\* before (a regular file, or an empty directory when the source is a
\* directory) is replaced, and every other entry of every directory is as
\* before.
C28_RenameMovesTheEntry ==
  \A fd \in FdNumbers, new_fd \in FdNumbers :
    \A old_path \in RenamePaths, new_path \in RenamePaths :
      Renamed(World, fd, old_path, new_fd, new_path) =>
        /\ RenameMoved(World, fd, old_path, new_fd, new_path,
                       wasi_path_rename(World, fd, old_path, new_fd, new_path))
        /\ Replaceable(World, ResolvesTo(World, fd, old_path),
                       ResolvesTo(World, new_fd, new_path))

\* When what is at B before the call is nothing, a regular file or an empty
\* directory, a successful rename moves the entry as C28 says.
RenameOverAReplaceableMovesTheEntry ==
  \A fd \in FdNumbers, new_fd \in FdNumbers :
    \A old_path \in RenamePaths, new_path \in RenamePaths :
      (/\ Renamed(World, fd, old_path, new_fd, new_path)
       /\ Replaceable(World, ResolvesTo(World, fd, old_path),
                      ResolvesTo(World, new_fd, new_path))) =>
        RenameMoved(World, fd, old_path, new_fd, new_path,
                    wasi_path_rename(World, fd, old_path, new_fd, new_path))

\* The directory a holds the directory b and nothing else, and
\* path_rename(a/b, a) succeeds: a, not empty before the call, is replaced.
RenameReplacesItsOwnParent ==
  /\ ResolvesTo(World, 3, <<"a">>) # NoInode
  /\ inodes[ResolvesTo(World, 3, <<"a">>)].kind = "Directory"
  /\ Len(inodes[ResolvesTo(World, 3, <<"a">>)].contents) = 1
  /\ wasi_path_rename(World, 3, <<"a", "/", "b">>, 3, <<"a">>).ret = ERRNO_SUCCESS

----------------------------------------------------------------------------
(* poll_oneoff keeps no state (SpecPoll) *)

\* poll_oneoff, which returned r for the batch with the clocks standing
\* still, returned the state it was given, and a second call on that state
\* with the same batch returns what the first returned.
PollRepeats(w, subscriptions, r) ==
  /\ r.w = w
  /\ wasi_poll_oneoff(r.w, subscriptions, Steady(subscriptions, clock),
                      clock) = r

\* The step is the guest's poll_oneoff that pollCall' records.
PollOneoffStep ==
  /\ pollCall'.op = "poll_oneoff"
  /\ pollCall'.later = clock'
  /\ Polled(pollCall'.subscriptions, pollCall'.now, clock',
            wasi_poll_oneoff(World, pollCall'.subscriptions, pollCall'.now,
                             clock'))

\* What a poll_oneoff of the guest leaves as it was: the descriptor table,
\* the free list, the tree, the queue of stdin with its byte count, closed
\* flag and callback; it invokes no callback; and the same call made again
\* on the state it left, at the time it ended, reports the same events
\* when no time passed during the first.
PollLeavesTheState ==
  /\ UNCHANGED <<fds, freeFds, inodes, next_ino, stdin, consoles, pushed,
                 consumed, registered>>
  /\ stdinCall'.woke = <<>>
  /\ clock' = clock =>
       wasi_poll_oneoff([fds |-> fds', freeFds |-> freeFds', inodes |-> inodes',
                         next_ino |-> next_ino', stdin |-> stdin',
                         consoles |-> consoles'],
                        pollCall'.subscriptions,
                        Steady(pollCall'.subscriptions, clock'),
                        clock').events
         = pollCall'.events

\* C29: poll_oneoff changes no state, for every batch: the call returns the
\* descriptor table, the free list, the tree and stdin (queue, byte count,
\* closed flag, callback) as it found them and invokes no wake callback,
\* and a second call with the same batch, with no push, close or clock
\* change in between, reports the same events.
C29_PollOneoffKeepsNoState ==
  /\ [](BeforePolling =>
          \A subscriptions \in Batches :
            PollRepeats(World, subscriptions,
                        wasi_poll_oneoff(World, subscriptions,
                                         Steady(subscriptions, clock),
                                         clock)))
  /\ [][PollOneoffStep => PollLeavesTheState]_vars

\* The host has pushed two bytes and closed stdin, and the guest has polled
\* a timer next to a read of stdin twice over: both calls reported the two
\* bytes to read, and the queue still holds them.
C29_Witness ==
  /\ pollCall.op = "poll_oneoff"
  /\ Len(pollCall.subscriptions) = 2
  /\ pollCall.nevents = 1
  /\ pollCall.events[1].type = EVENTTYPE_FD_READ
  /\ pollCall.events[1].nbytes = 2
  /\ stdin.bufferSize = 2
  /\ stdin.closed
  /\ wasi_poll_oneoff(World, pollCall.subscriptions,
                      Steady(pollCall.subscriptions, clock), clock).events
       = pollCall.events

----------------------------------------------------------------------------
(* SpecOpen: path_open of the file a/b, made read-only or writable *)

\* The embedding makes the file a/b with new File(data, { readonly }) or
\* without the option (fs-mem.ts 452-459); the rest is as in Init.
InitOpen ==
  /\ \E readonly \in BOOLEAN :
       inodes = [InitInodes EXCEPT ![FileBIno].readonly = readonly]
  /\ stdin = NewPollableStdin
  /\ pushed = <<>>
  /\ consumed = <<>>
  /\ next_ino = FirstFreeIno
  /\ fds = InitFds
  /\ freeFds = <<>>
  /\ fault = FALSE
  /\ registered = NoCallback
  /\ stdinCall = [op |-> "none", arg |-> <<>>, woke |-> <<>>]
  /\ pathCall = NoPath
  /\ loop = NewQuickJS
  /\ clock = [realtime |-> 0, monotonic |-> 0]
  /\ pollCall = NoPollCall
  /\ consoles = [i \in {StdoutIno, StderrIno} |-> NewConsoleStdout]

\* The oflags, rights and fd_flags the guest passes to path_open.
RIGHTS_FD_READ == 2
OpenOflags == 0 .. (2 * OFLAGS_TRUNC - 1)
OpenRights == {0, RIGHTS_FD_READ, RIGHTS_FD_WRITE,
               RIGHTS_FD_READ + RIGHTS_FD_WRITE}
OpenFdFlags == 0 .. (2 * FDFLAGS_APPEND + 1)

OpenWithRights ==
  \E oflags \in OpenOflags, fs_rights_base \in OpenRights,
     fd_flags \in OpenFdFlags :
    /\ ~fault
    /\ FileCall(wasi_path_open(World, 3, FilePath, oflags, fs_rights_base,
                               fd_flags))

NextOpen ==
  \/ OpenWithRights
  \/ FileClose
  \/ FileWrite

SpecOpen == InitOpen /\ [][NextOpen]_vars

----------------------------------------------------------------------------
(* path_open of a read-only and of a writable file (SpecOpen) *)

\* The request is one a read-only file refuses.
AsksToChange(oflags, fs_rights_base) ==
  \/ HasFlag(oflags, OFLAGS_TRUNC)
  \/ HasFlag(fs_rights_base, RIGHTS_FD_WRITE)

\* The directory hands the request to the file: with OFLAGS_EXCL it has
\* answered ERRNO_EXIST itself, with OFLAGS_DIRECTORY ERRNO_NOTDIR.
ReachesTheFile(oflags) ==
  /\ ~HasFlag(oflags, OFLAGS_EXCL)
  /\ ~HasFlag(oflags, OFLAGS_DIRECTORY)

\* The size of the file a/b after a truncation asked by oflags or not.
SizeAfter(data, oflags) ==
  IF HasFlag(oflags, OFLAGS_TRUNC) THEN 0 ELSE Len(data)

\* r, what File.path_open returned on the heap h, is as the claim says.
FileOpenedAsAsked(h, r, oflags, fs_rights_base, fd_flags) ==
  IF h.inodes[FileBIno].readonly
    THEN AsksToChange(oflags, fs_rights_base) =>
           /\ r.ret = ERRNO_PERM
           /\ r.fd_obj = Undefined
           /\ r.h = h
    ELSE /\ r.ret = ERRNO_SUCCESS
         /\ r.fd_obj.kind = "OpenFile"
         /\ r.fd_obj.ino = FileBIno
         /\ Len(r.h.inodes[FileBIno].data)
              = SizeAfter(h.inodes[FileBIno].data, oflags)
         /\ ~HasFlag(oflags, OFLAGS_TRUNC) => r.h = h
         /\ HasFlag(fd_flags, FDFLAGS_APPEND) =>
              r.fd_obj.file_pos = SizeAfter(h.inodes[FileBIno].data, oflags)

\* r, what the import function path_open returned in the state w, is as
\* the claim says.
PathOpenedAsAsked(w, r, oflags, fs_rights_base, fd_flags) ==
  IF w.inodes[FileBIno].readonly
    THEN AsksToChange(oflags, fs_rights_base) =>
           /\ r.ret # ERRNO_SUCCESS
           /\ ReachesTheFile(oflags) => r.ret = ERRNO_PERM
           /\ r.opened_fd = NoOpenedFd
           /\ r.w = w
    ELSE ReachesTheFile(oflags) =>
           /\ r.ret = ERRNO_SUCCESS
           /\ ~Live(w, r.opened_fd)
           /\ FdAt(r.w, r.opened_fd).kind = "OpenFile"
           /\ FdAt(r.w, r.opened_fd).ino = FileBIno
           /\ Len(r.w.inodes[FileBIno].data)
                = SizeAfter(w.inodes[FileBIno].data, oflags)
           /\ HasFlag(fd_flags, FDFLAGS_APPEND) =>
                FdAt(r.w, r.opened_fd).file_pos
                  = SizeAfter(w.inodes[FileBIno].data, oflags)

\* C30: path_open on a read-only file with the truncate flag, or asking
\* for the write right, fails with ERRNO_PERM, allocates no descriptor and
\* leaves the file's content and size as they were; on a writable file the
\* truncate flag sets the size to 0 and the append flag puts the cursor of
\* the new handle at the size the file has after the truncation, if any.
\* This is checked of File.path_open for every oflags, rights and fd_flags,
\* and of the import function path_open on the path a/b, where the errno
\* is ERRNO_PERM whenever the directory hands the request to the file; no
\* step changes the content of the read-only file.
C30_ReadOnlyFileRefusesTruncateAndWrite ==
  /\ [](\A oflags \in OpenOflags, fs_rights_base \in OpenRights,
           fd_flags \in OpenFdFlags :
          /\ FileOpenedAsAsked(
               Heap(World),
               File_path_open(Heap(World), FileBIno, oflags, fs_rights_base,
                              fd_flags),
               oflags, fs_rights_base, fd_flags)
          /\ PathOpenedAsAsked(
               World,
               wasi_path_open(World, 3, FilePath, oflags, fs_rights_base,
                              fd_flags),
               oflags, fs_rights_base, fd_flags))
  /\ [][inodes[FileBIno].readonly =>
          inodes'[FileBIno] = inodes[FileBIno]]_vars

\* The read-only file a/b is open on descriptor 4 and on no other: it was
\* opened for reading, and the asks to truncate it or to write it were
\* refused with ERRNO_PERM and took no descriptor.
C30_Witness ==
  /\ inodes[FileBIno].readonly
  /\ inodes[FileBIno].data = InitBytes
  /\ Len(fds) = 5
  /\ freeFds = <<>>
  /\ fds[5].kind = "OpenFile"
  /\ wasi_path_open(World, 3, FilePath, OFLAGS_TRUNC, 0, 0).ret = ERRNO_PERM
  /\ wasi_path_open(World, 3, FilePath, 0, RIGHTS_FD_WRITE, 0).ret = ERRNO_PERM
  /\ wasi_path_open(World, 3, FilePath, 0, RIGHTS_FD_WRITE, 0).w = World

\* The writable file a/b, grown to 3 bytes, was truncated by a path_open
\* that also asked to append: the new handle on descriptor 5 stands at 0,
\* the size after the truncation, and the older one still stands at 3.
OpenedTruncatedForAppend ==
  /\ ~inodes[FileBIno].readonly
  /\ inodes[FileBIno].data = <<>>
  /\ Len(fds) = 6
  /\ fds[5].kind = "OpenFile" /\ fds[5].file_pos = 3
  /\ fds[6].kind = "OpenFile" /\ fds[6].file_pos = 0

----------------------------------------------------------------------------
(* The directory graph (Spec) *)

\* The inodes the directory dir contains, directly or transitively.
ContainedIn(nodes, dir) ==
  Subtree(nodes, { nodes[dir].contents[k].ino :
                     k \in 1..Len(nodes[dir].contents) })

\* No directory is contained in itself.
NoDirectoryContainsItself ==
  \A dir \in Directories(inodes) : dir \notin ContainedIn(inodes, dir)

\* The directories the preopened root contains, and the root.
UnderTheRoot(nodes) == Directories(nodes) \cap Subtree(nodes, {RootIno})

\* A directory under the root that is still an entry of a directory after
\* the step (it was neither removed nor replaced) is still under the root.
StaysUnderTheRoot ==
  \A dir \in UnderTheRoot(inodes) :
    (dir \in DOMAIN inodes' /\ Linked(inodes', dir)) =>
      dir \in UnderTheRoot(inodes')

\* C31: after any sequence of path_open, path_create_directory, path_link,
\* path_rename, path_unlink_file and path_remove_directory calls through
\* the open directory descriptors, no directory is contained in itself,
\* directly or transitively, and every directory that was reachable from
\* the preopened root is still reachable from it unless it was removed or
\* replaced.
C31_DirectoryGraphStaysATree ==
  /\ []NoDirectoryContainsItself
  /\ [][StaysUnderTheRoot]_vars

\* The directory a is an entry of itself and the root is empty.
DirectoryInsideItself ==
  /\ MapGet(inodes[DirAIno].contents, <<"a">>) = DirAIno
  /\ inodes[RootIno].contents = <<>>

----------------------------------------------------------------------------
(* SpecResize: the calls that write or resize the file a/b, made read-only *)
(* or writable                                                             *)

FileSizes == 0 .. MaxFileSize

FileAllocate ==
  \E fd \in FileFds, offset \in FileOffsets, len \in FileSizes :
    /\ ~fault
    /\ FileCall(wasi_fd_allocate(World, fd, offset, len))

FileSetSize ==
  \E fd \in FileFds, size \in FileSizes :
    /\ ~fault
    /\ FileCall(wasi_fd_filestat_set_size(World, fd, size))

NextResize ==
  \/ OpenWithRights
  \/ FileClose
  \/ FileWrite
  \/ FilePwrite
  \/ FileAllocate
  \/ FileSetSize

SpecResize == InitOpen /\ [][NextResize]_vars

----------------------------------------------------------------------------
(* The content of a read-only file (SpecResize) *)

\* The file a/b holds the bytes it held before the step.
KeepsTheContent == inodes'[FileBIno].data = inodes[FileBIno].data

\* C32: the byte content and size of a File constructed read-only never
\* change under any sequence of guest calls: fd_write, fd_pwrite,
\* fd_allocate, fd_filestat_set_size and path_open with truncate, on any
\* descriptor opened on it, all leave its data unchanged.
C32_ReadOnlyContentNeverChanges ==
  /\ [](inodes[FileBIno].readonly => inodes[FileBIno].data = InitBytes)
  /\ [][inodes[FileBIno].readonly => KeepsTheContent]_vars

\* fd_write, fd_pwrite and path_open leave the read-only file as it is: in
\* every state, on every descriptor, they return the heap they were given.
WritesKeepTheReadOnlyContent ==
  inodes[FileBIno].readonly =>
    /\ \A fd \in FileFds, iovecs \in FileWrites :
         /\ wasi_fd_write(World, fd, iovecs).w.inodes = inodes
         /\ \A offset \in FileOffsets :
              wasi_fd_pwrite(World, fd, iovecs, offset).w.inodes = inodes
    /\ \A oflags \in OpenOflags, fs_rights_base \in OpenRights :
         wasi_path_open(World, 3, FilePath, oflags, fs_rights_base, 0).w.inodes
           = inodes

\* The read-only file a/b, made with the one byte 7, has been cut to no
\* byte, or grown by a zero, through a descriptor open on it.
ReadOnlyFileResized ==
  /\ inodes[FileBIno].readonly
  /\ inodes[FileBIno].data \in { <<>>, InitBytes \o <<0>> }

----------------------------------------------------------------------------
(* path_create_directory (Spec) *)

\* path_str resolves, after the call that returned r, to a directory that
\* holds nothing and was not there before the call.
MadeANewDirectory(w, fd, path_str, r) ==
  /\ ResolvesTo(w, fd, path_str) = NoInode
  /\ ResolvesTo(r.w, fd, path_str) \notin DOMAIN w.inodes
  /\ r.w.inodes[ResolvesTo(r.w, fd, path_str)].kind = "Directory"
  /\ r.w.inodes[ResolvesTo(r.w, fd, path_str)].contents = <<>>

\* r, what path_create_directory(fd, path_str) returned in the state w, is a
\* success only for a new directory, and a failure without effect when the
\* path named an entry.
CreatedOrRefused(w, fd, path_str, r) ==
  /\ r.ret = ERRNO_SUCCESS => MadeANewDirectory(w, fd, path_str, r)
  /\ ResolvesTo(w, fd, path_str) # NoInode =>
       /\ r.ret # ERRNO_SUCCESS
       /\ r.w = w

\* C33: path_create_directory returns success only when it has inserted a
\* new empty directory at the path; if the path already names an entry, a
\* file or a directory, it fails with an error and changes nothing; if the
\* parent directory is missing it fails with ERRNO_NOENT.
C33_CreateDirectoryInsertsOrFails ==
  \A fd \in FdNumbers :
    IsOpenDirectory(FdAt(World, fd)) =>
      /\ \A path_str \in ClaimPaths :
           CreatedOrRefused(World, fd, path_str,
                            wasi_path_create_directory(World, fd, path_str))
      /\ \A parent \in ParentNames, child \in ChildNames :
           Missing(fd, parent) =>
             wasi_path_create_directory(World, fd, Under(parent, child)).ret
               = ERRNO_NOENT

\* r, what path_create_directory(fd, path_str) returned in the state w, by
\* what the path resolved to: success without effect over a directory,
\* ERRNO_NOTDIR without effect over a file, and a new empty directory if it
\* is a success over nothing.
CreatedOrOpened(w, fd, path_str, r) ==
  IF ResolvesTo(w, fd, path_str) = NoInode
    THEN IF r.ret = ERRNO_SUCCESS
           THEN MadeANewDirectory(w, fd, path_str, r)
           ELSE r.w = w
  ELSE IF w.inodes[ResolvesTo(w, fd, path_str)].kind = "Directory"
    THEN r.ret = ERRNO_SUCCESS /\ r.w = w
  ELSE r.ret = ERRNO_NOTDIR /\ r.w = w

\* path_create_directory over a directory that exists is a success, and
\* the rest of C33 holds.
CreateDirectoryOpensAnExistingOne ==
  \A fd \in FdNumbers :
    IsOpenDirectory(FdAt(World, fd)) =>
      /\ \A path_str \in ClaimPaths :
           CreatedOrOpened(World, fd, path_str,
                           wasi_path_create_directory(World, fd, path_str))
      /\ \A parent \in ParentNames, child \in ChildNames :
           Missing(fd, parent) =>
             wasi_path_create_directory(World, fd, Under(parent, child)).ret
               = ERRNO_NOENT

\* A directory the guest has made exists at a path, and
\* path_create_directory of that path returns success again.
DirectoriesWereMade ==
  /\ next_ino > FirstFreeIno
  /\ \E fd \in FdNumbers, path_str \in PathStrings :
       /\ IsOpenDirectory(FdAt(World, fd))
       /\ ResolvesTo(World, fd, path_str) >= FirstFreeIno
       /\ inodes[ResolvesTo(World, fd, path_str)].kind = "Directory"
       /\ wasi_path_create_directory(World, fd, path_str).ret = ERRNO_SUCCESS

----------------------------------------------------------------------------
(* The clock an expiry is decided on (SpecPoll) *)

\* The clock of the subscription, read after the loop, has reached the
\* deadline of the subscription, which counts from the reading now of the
\* loop at that subscription.
ReachedOnItsClock(sub, now, later) ==
  getNow(sub.clockid, later) >= Deadline(sub, now)

\* Every event is a clock-expiry event.
NoOtherEvent(events) == \A k \in 1..Len(events) : k \in Expiries(events)

\* A clock-expiry event names a clock subscription of the batch that has
\* reached its deadline on its own clock, and there is one whenever a clock
\* subscription has done so and no other event fired.
ExpiryOnItsOwnClock(subscriptions, nows, later, events) ==
  /\ \A e \in Expiries(events) :
       \E i \in ClockPositions(subscriptions) :
         /\ events[e].userdata = subscriptions[i].userdata
         /\ ReachedOnItsClock(subscriptions[i], nows[i], later)
  /\ (/\ NoOtherEvent(events)
      /\ \E i \in ClockPositions(subscriptions) :
           ReachedOnItsClock(subscriptions[i], nows[i], later))
       => Expiries(events) # {}

\* C34: for every batch, also one that mixes realtime and monotonic clock
\* subscriptions, a clock event is emitted only if the subscription named
\* by the event's user tag has reached its deadline on its own clock, and
\* is emitted whenever that is the case and no other event fired.
C34_ExpiryIsDecidedOnTheSameClock ==
  /\ pollCall.op = "poll_oneoff" =>
       ExpiryOnItsOwnClock(pollCall.subscriptions, pollCall.now,
                           pollCall.later, pollCall.events)
  /\ BeforePolling =>
       \A subscriptions \in Batches, d \in ClockDelays :
         \A nows \in LoopReadings(subscriptions, clock, d) :
           ExpiryOnItsOwnClock(
             subscriptions, nows, Advance(clock, d),
             wasi_poll_oneoff(World, subscriptions, nows,
                              Advance(clock, d)).events)

\* The clock subscriptions of the batch are all on one clock.
OnOneClock(subscriptions) ==
  \A i, j \in ClockPositions(subscriptions) :
    subscriptions[i].clockid = subscriptions[j].clockid

\* The same for the batches whose clock subscriptions are on one clock.
ExpiryIsDecidedOnTheOneClock ==
  /\ (pollCall.op = "poll_oneoff" /\ OnOneClock(pollCall.subscriptions)) =>
       ExpiryOnItsOwnClock(pollCall.subscriptions, pollCall.now,
                           pollCall.later, pollCall.events)
  /\ BeforePolling =>
       \A subscriptions \in Batches, d \in ClockDelays :
         OnOneClock(subscriptions) =>
           \A nows \in LoopReadings(subscriptions, clock, d) :
             ExpiryOnItsOwnClock(
               subscriptions, nows, Advance(clock, d),
               wasi_poll_oneoff(World, subscriptions, nows,
                                Advance(clock, d)).events)

\* The guest has polled with a relative timer on the realtime clock and an
\* absolute one on the monotonic clock, and got the event of the second
\* although the monotonic clock had not reached its deadline.
ExpiryOnTheOtherClock ==
  /\ pollCall.op = "poll_oneoff"
  /\ Len(pollCall.subscriptions) = 2
  /\ pollCall.subscriptions[1].clockid = CLOCKID_REALTIME
  /\ pollCall.subscriptions[2].clockid = CLOCKID_MONOTONIC
  /\ pollCall.events = << ClockEvent(Tag(2)) >>
  /\ ~ReachedOnItsClock(pollCall.subscriptions[2], pollCall.now[2],
                        pollCall.later)

----------------------------------------------------------------------------
(* SpecDrive: a loop that keeps polling with one batch while time passes *)

\* The batches of the driving loop: one timer, relative or absolute, on
\* either clock, alone or next to a read of stdin, which never has data.
\* The timeout is longer than a call of poll_oneoff takes.
DriveTimeouts == {MaxClock - 1, MaxClock}
DriveBatches ==
  { Tagged(<<ClockSubscription(c, t, f)>>) :
      c \in {CLOCKID_REALTIME, CLOCKID_MONOTONIC}, t \in DriveTimeouts,
      f \in {0, SUBCLOCKFLAGS_SUBSCRIPTION_CLOCK_ABSTIME} } \cup
  { Tagged(<<StdinSubscription, ClockSubscription(c, t, f)>>) :
      c \in {CLOCKID_REALTIME, CLOCKID_MONOTONIC}, t \in DriveTimeouts,
      f \in {0, SUBCLOCKFLAGS_SUBSCRIPTION_CLOCK_ABSTIME} }

\* The clocks of SpecDrive run for ever.  poll_oneoff keeps nothing
\* between calls, and from MaxClock on, where every absolute deadline of
\* DriveBatches has passed, what it returns depends on the differences
\* between the readings only (ShiftedPollReturnsTheSame).  The readings are
\* therefore kept up to a shift by DrivePeriod: a reading above DriveLast
\* is kept DrivePeriod lower, and stands for itself and for the readings a
\* multiple of DrivePeriod further on.
DriveLast == MaxClock + DrivePeriod - 1
Kept(reading) ==
  IF reading > DriveLast THEN reading - DrivePeriod ELSE reading
KeptClock(c) ==
  [realtime |-> Kept(c.realtime), monotonic |-> Kept(c.monotonic)]

\* Time passes on one of the clocks, between the calls of the loop.
DriveTick ==
  \E c \in {"realtime", "monotonic"} :
    /\ clock' = [clock EXCEPT ![c] = Kept(@ + 1)]
    /\ UNCHANGED <<stdin, inodes, next_ino, fds, freeFds, fault, pollCall,
                   stdinCall, consoles>>
    /\ PollUnchanged

\* The loop's poll_oneoff: the first with a batch of its choice, the later
\* ones with the same batch.  The call takes the time d and reads the
\* clocks as they advance during it.
DrivePoll ==
  \E subscriptions \in DriveBatches :
    /\ BeforePolling \/ subscriptions = pollCall.subscriptions
    /\ ~fault
    /\ \E d \in ClockDelays :
         /\ clock' = KeptClock(Advance(clock, d))
         /\ \E nows \in LoopReadings(subscriptions, clock, d) :
              \E r \in {wasi_poll_oneoff(World, subscriptions, nows,
                                         Advance(clock, d))} :
                  /\ Returns(r)
                  /\ pollCall' = [op |-> "poll_oneoff",
                                  subscriptions |-> subscriptions,
                                  now |-> nows, later |-> Advance(clock, d),
                                  ret |-> r.ret, events |-> r.events,
                                  nevents |-> r.nevents]
    /\ stdinCall' = StdinPolls(World, subscriptions, stdinCall)
    /\ PollUnchanged

NextDrive ==
  \/ DriveTick
  \/ DrivePoll

SpecDrive == Init /\ [][NextDrive]_vars

\* The loop goes on polling, and each clock goes on advancing.
FairSpecDrive ==
  /\ SpecDrive
  /\ WF_vars(DrivePoll)
  /\ WF_vars(DriveTick /\ clock'.realtime # clock.realtime)
  /\ WF_vars(DriveTick /\ clock'.monotonic # clock.monotonic)

----------------------------------------------------------------------------
(* The expiry of a timer polled again and again (FairSpecDrive) *)

\* The timer of the loop's batch.
DriveTimer == pollCall.subscriptions[Len(pollCall.subscriptions)]

\* The last poll_oneoff reported a clock-expiry event.
Expired == Expiries(pollCall.events) # {}

\* C35: under a clock that advances between calls, a driving loop that
\* keeps re-issuing the same poll_oneoff batch with a clock subscription
\* (relative timeout greater than zero, or absolute deadline) and no ready
\* descriptor eventually receives a clock-expiry event for it.
C35_ReissuedPollEventuallyExpires ==
  (pollCall.op = "poll_oneoff") ~> Expired

\* Each clock advances again and again.
ClocksKeepAdvancing ==
  /\ []<><<clock'.realtime # clock.realtime>>_vars
  /\ []<><<clock'.monotonic # clock.monotonic>>_vars

\* From MaxClock on a poll_oneoff of the loop returns the same when the
\* readings of a clock are all shifted by a multiple of DrivePeriod.
DriveShifts == {0, DrivePeriod, 2 * DrivePeriod}
ShiftedPollReturnsTheSame ==
  \A subscriptions \in DriveBatches, d \in ClockDelays,
     k \in [realtime : DriveShifts, monotonic : DriveShifts] :
    (/\ k.realtime > 0 => clock.realtime >= MaxClock
     /\ k.monotonic > 0 => clock.monotonic >= MaxClock) =>
      \A nows \in LoopReadings(subscriptions, clock, d) :
        LET r == wasi_poll_oneoff(World, subscriptions, nows,
                                  Advance(clock, d))
            shifted ==
              wasi_poll_oneoff(World, subscriptions,
                               [i \in 1..Len(nows) |-> Advance(nows[i], k)],
                               Advance(Advance(clock, d), k))
        IN  /\ shifted.ret = r.ret
            /\ shifted.events = r.events
            /\ shifted.nevents = r.nevents

\* With an absolute deadline the loop eventually receives the event.
AbsoluteDeadlineEventuallyExpires ==
  (/\ pollCall.op = "poll_oneoff"
   /\ HasFlag(DriveTimer.flags, SUBCLOCKFLAGS_SUBSCRIPTION_CLOCK_ABSTIME))
    ~> Expired

\* With a relative timeout that no single call outlasts, it never does.
RelativeTimeoutNeverExpires ==
  (/\ pollCall.op = "poll_oneoff"
   /\ ~HasFlag(DriveTimer.flags, SUBCLOCKFLAGS_SUBSCRIPTION_CLOCK_ABSTIME)
   /\ \A d \in Delays : d < DriveTimer.timeout)
    => ~Expired

\* Both clocks have run past MaxClock and the relative timer the loop has
\* polled with all along has not expired.
PolledInVain ==
  /\ pollCall.op = "poll_oneoff"
  /\ ~HasFlag(DriveTimer.flags, SUBCLOCKFLAGS_SUBSCRIPTION_CLOCK_ABSTIME)
  /\ pollCall.later.realtime > MaxClock
  /\ pollCall.later.monotonic > MaxClock
  /\ ~Expired

----------------------------------------------------------------------------
(* A path_open that fails (SpecOpen, Spec) *)

\* The paths of a path_open: those of ClaimPaths, a free name in a, a name
\* under a missing directory and a name under the file a/b.
OpenPaths ==
  ClaimPaths \cup { <<"a", "/", "x">>, <<"x", "/", "y">>,
                    <<"a", "/", "b", "/", "x">> }

\* r, what path_open returned in the state w, is a success or the state w
\* and no descriptor.
OpenedOrUntouched(w, r) ==
  r.ret # ERRNO_SUCCESS =>
    /\ r.w = w
    /\ r.opened_fd = NoOpenedFd

\* C36: a path_open that returns a non-zero errno leaves the tree (no entry
\* created, no file truncated), the descriptor table and the free list as
\* they were before the call, for every descriptor number, path, oflags,
\* rights and fd_flags, over a read-only and over a writable file.
C36_FailedPathOpenChangesNothing ==
  \A fd \in TableFds, path_str \in OpenPaths, oflags \in OpenOflags,
     fs_rights_base \in {0, RIGHTS_FD_WRITE}, fd_flags \in FileFdFlags :
    OpenedOrUntouched(World,
                      wasi_path_open(World, fd, path_str, oflags,
                                     fs_rights_base, fd_flags))

\* The same in the states of Spec, where the guest has changed the tree
\* and holds descriptors on directories below the root.
FailedPathOpenChangesNoTree ==
  \A fd \in FdNumbers, path_str \in ClaimPaths, oflags \in OpenOflags :
    OpenedOrUntouched(World,
                      wasi_path_open(World, fd, path_str, oflags, 0, 0))

\* The read-only file a/b is open on descriptor 5 and descriptor 4 is
\* free; path_open fails with five different errnos, on a truncation of
\* the file, an exclusive create of it, a create under a missing directory,
\* a create under the file and an open through the file's descriptor.
C36_Witness ==
  /\ inodes[FileBIno].readonly
  /\ freeFds = <<4>>
  /\ Len(fds) = 6
  /\ fds[6].kind = "OpenFile"
  /\ wasi_path_open(World, 3, FilePath, OFLAGS_TRUNC, 0, 0).ret = ERRNO_PERM
  /\ wasi_path_open(World, 3, FilePath, OFLAGS_CREAT + OFLAGS_EXCL, 0, 0).ret
       = ERRNO_EXIST
  /\ wasi_path_open(World, 3, <<"x", "/", "y">>, OFLAGS_CREAT, 0, 0).ret
       = ERRNO_NOENT
  /\ wasi_path_open(World, 3, <<"a", "/", "b", "/", "x">>, OFLAGS_CREAT, 0,
                    0).ret = ERRNO_NOTDIR
  /\ wasi_path_open(World, 5, <<"a">>, 0, 0, 0).ret = ERRNO_NOTDIR

----------------------------------------------------------------------------
(* The free list and the absent slots (SpecFdTable) *)

\* The indices of the table with a handle, and those without.
LiveSlots == { fd \in 0 .. (Len(fds) - 1) : Live(World, fd) }
AbsentSlots == { fd \in 0 .. (Len(fds) - 1) : ~Live(World, fd) }

\* C37: after any sequence of path_open, fd_close and fd_renumber calls,
\* also fd_renumber with equal source and target, the free list holds
\* exactly the indices of the absent slots of the table, each once, so the
\* length of the table is the number of live descriptors plus the length
\* of the free list.
C37_FreeListIsTheAbsentSlots ==
  /\ { freeFds[i] : i \in 1..Len(freeFds) } = AbsentSlots
  /\ \A i, j \in 1..Len(freeFds) : freeFds[i] = freeFds[j] => i = j
  /\ Len(fds) = Cardinality(LiveSlots) + Len(freeFds)

\* An fd_renumber has moved the handle of stdout to index 0 and a
\* path_open has put a directory at the index 1 that it freed; index 3 is
\* free, and an fd_renumber of index 2 onto itself frees that index too,
\* adding it to the free list once.
C37_Witness ==
  /\ FdAt(World, 0).kind = "ConsoleStdout"
  /\ FdAt(World, 1).kind = "OpenDirectory"
  /\ freeFds = <<3>>
  /\ wasi_fd_renumber(World, 2, 2).w.freeFds = <<3, 2>>

----------------------------------------------------------------------------
(* The number and the tags of the events (SpecPoll) *)

\* What poll_oneoff returned for the batch: for no subscription
\* ERRNO_INVAL with nothing written and the state as it was; else success
\* with a count that is the number of the events written and at most the
\* number of subscriptions, each event tagged as a subscription of the
\* batch.
EventsFitTheBatch(w, subscriptions, r) ==
  IF Len(subscriptions) = 0
    THEN /\ r.ret = ERRNO_INVAL
         /\ r.events = <<>>
         /\ r.nevents = NotWritten
         /\ r.w = w
    ELSE /\ r.ret = ERRNO_SUCCESS
         /\ r.nevents = Len(r.events)
         /\ r.nevents <= Len(subscriptions)
         /\ \A e \in 1..Len(r.events) :
              \E i \in 1..Len(subscriptions) :
                r.events[e].userdata = subscriptions[i].userdata

\* C38: for every batch of n >= 1 subscriptions poll_oneoff reports at
\* most n events, so it writes no more than n event slots, and every event
\* carries the user tag of a subscription of the batch; with n = 0 it
\* returns ERRNO_INVAL and writes nothing.
C38_AtMostOneEventPerSubscription ==
  /\ pollCall.op = "poll_oneoff" =>
       /\ pollCall.ret = IF Len(pollCall.subscriptions) = 0
                           THEN ERRNO_INVAL ELSE ERRNO_SUCCESS
       /\ Len(pollCall.events) <= Len(pollCall.subscriptions)
       /\ \A e \in 1..Len(pollCall.events) :
            \E i \in 1..Len(pollCall.subscriptions) :
              pollCall.events[e].userdata = pollCall.subscriptions[i].userdata
  /\ BeforePolling =>
       \A subscriptions \in Batches, d \in ClockDelays :
         \A nows \in LoopReadings(subscriptions, clock, d) :
           EventsFitTheBatch(World, subscriptions,
                             wasi_poll_oneoff(World, subscriptions, nows,
                                              Advance(clock, d)))

\* The guest has polled with a batch of two subscriptions and got one
\* event, the expiry of the timer tagged 7; stdin holds data, so that a
\* batch of two descriptor subscriptions fills both of its event slots,
\* and a batch of none is refused.
C38_Witness ==
  /\ pollCall.op = "poll_oneoff"
  /\ Len(pollCall.subscriptions) = 2
  /\ pollCall.events = << ClockEvent(Tag(1)) >>
  /\ stdin.bufferSize > 0
  /\ wasi_poll_oneoff(World,
                      Tagged(<<StdinSubscription,
                               [StdinSubscription EXCEPT !.fd = 9]>>),
                      <<clock, clock>>, clock).nevents = 2
  /\ wasi_poll_oneoff(World, <<>>, <<>>, clock).ret = ERRNO_INVAL

----------------------------------------------------------------------------
(* The cursors of the descriptors of one file (SpecFile) *)

\* The descriptors open on a file.
OpenFileFds(w) == { fd \in FileFds : FdAt(w, fd).kind = "OpenFile" }

\* The cursor of a descriptor open on a file.
Cursor(w, fd) == FdAt(w, fd).file_pos

\* The state after is the state before but for the cursor of fd, which has
\* moved forward by n.
OnlyCursorMoved(before, after, fd, n) ==
  after = [before EXCEPT !.fds[fd + 1].file_pos = @ + n]

\* fd_read with r, what it returned in the state w: it moved the cursor of
\* fd alone, by the bytes it returned, which are those under the cursor.
ReadMovesItsCursor(w, fd, r) ==
  /\ r.ret = ERRNO_SUCCESS
  /\ r.nread = Len(r.data)
  /\ r.data = Slice(w.inodes[FdAt(w, fd).ino].data, Cursor(w, fd),
                    Cursor(w, fd) + r.nread)
  /\ OnlyCursorMoved(w, r.w, fd, r.nread)

\* The bytes data at position pos of its file are read through fd, from
\* the start of the file, in the state w.
ReadsBack(w, fd, pos, data) ==
  LET sought == wasi_fd_seek(w, fd, 0, WHENCE_SET)
      r == wasi_fd_read(sought.w, fd, <<pos, Len(data)>>)
  IN  /\ sought.ret = ERRNO_SUCCESS
      /\ r.ret = ERRNO_SUCCESS
      /\ SubSeq(r.data, pos + 1, Len(r.data)) = data

\* fd_write of data with r, what it returned in the state w: it moved the
\* cursor of fd alone, by the bytes written, left every other cursor and
\* descriptor as it was, and the bytes are read back through every
\* descriptor open on the file.
WriteMovesItsCursor(w, fd, data, r) ==
  /\ r.ret = ERRNO_SUCCESS
  /\ r.nwritten = Len(data)
  /\ r.w.fds = [w.fds EXCEPT ![fd + 1].file_pos = @ + Len(data)]
  /\ r.w.freeFds = w.freeFds
  /\ \A other \in OpenFileFds(w) :
       FdAt(w, other).ino = FdAt(w, fd).ino =>
         ReadsBack(r.w, other, Cursor(w, fd), data)

\* C39: each open file descriptor has its own cursor over shared content:
\* fd_read and fd_write advance only the cursor of the descriptor they are
\* called on, by exactly the number of bytes transferred; fd_pread and
\* fd_pwrite change no cursor; a failed fd_seek leaves the cursor
\* unchanged, so no cursor is ever negative; and bytes written through one
\* descriptor are read through every other descriptor open on the file.
C39_EachDescriptorHasItsOwnCursor ==
  /\ \A i \in 1..Len(fds) : fds[i] # Undefined => fds[i].file_pos >= 0
  /\ \A fd \in OpenFileFds(World) :
       /\ \A iovecs \in ReadSizes :
            ReadMovesItsCursor(World, fd, wasi_fd_read(World, fd, iovecs))
       /\ \A iovecs \in FileWrites :
            WriteMovesItsCursor(World, fd, Flatten(iovecs),
                                wasi_fd_write(World, fd, iovecs))
       /\ \A offset \in FileOffsets :
            /\ \A iovecs \in ReadSizes :
                 wasi_fd_pread(World, fd, iovecs, offset).w = World
            /\ \A iovecs \in FileWrites :
                 /\ wasi_fd_pwrite(World, fd, iovecs, offset).w.fds = fds
                 /\ wasi_fd_pwrite(World, fd, iovecs, offset).ret
                      = ERRNO_SUCCESS
       /\ \A offset \in SeekOffsets, whence \in Whences :
            LET r == wasi_fd_seek(World, fd, offset, whence)
            IN  IF r.ret = ERRNO_SUCCESS
                  THEN /\ r.offset_out >= 0
                       /\ r.w = [World EXCEPT !.fds[fd + 1].file_pos =
                                                r.offset_out]
                  ELSE r.w = World

\* Descriptors 4 and 5 are open on a/b, whose last two bytes, 8 and 9,
\* were written through descriptor 4; the cursor of 4 stands at
\* the end and that of 5 at 1, and a read through 5 returns the two bytes
\* and moves the cursor of 5 only, while a seek of 5 to before the start
\* fails and leaves it at 1.
C39_Witness ==
  /\ Len(fds) = 6
  /\ fds[5].kind = "OpenFile" /\ fds[6].kind = "OpenFile"
  /\ inodes[FileBIno].data = <<7, 8, 9>>
  /\ fds[5].file_pos = 3
  /\ fds[6].file_pos = 1
  /\ wasi_fd_read(World, 5, <<2>>).data = <<8, 9>>
  /\ Cursor(wasi_fd_read(World, 5, <<2>>).w, 5) = 3
  /\ Cursor(wasi_fd_read(World, 5, <<2>>).w, 4) = 3
  /\ wasi_fd_seek(World, 5, -2, WHENCE_CUR).ret = ERRNO_INVAL
  /\ wasi_fd_seek(World, 5, -2, WHENCE_CUR).w = World

----------------------------------------------------------------------------
(* The enumeration of a directory after a failed rename (Spec) *)

\* The cookies of the entries of a directory, and one past them.
Cookies(nodes, dir) == 0 .. (Len(nodes[dir].contents) + 2)

\* fd_readdir_single returns the same at every cookie of the directory in
\* both heaps.
SameEnumeration(before, after, dir) ==
  /\ Cookies(after, dir) = Cookies(before, dir)
  /\ \A cookie \in Cookies(before, dir) :
       OpenDirectory_fd_readdir_single(after, dir, cookie)
         = OpenDirectory_fd_readdir_single(before, dir, cookie)

\* path_rename returned an errno in r.
RenameFailed(r) == r.ret \notin {ERRNO_SUCCESS, THROWN}

\* C40: a path_rename that returns an error leaves the enumeration of the
\* source directory unchanged: every entry, the one named by the source
\* path included, is returned by fd_readdir at the same cookie as before
\* the call.
C40_FailedRenameKeepsTheEnumeration ==
  \A fd \in FdNumbers, new_fd \in FdNumbers,
     old_path \in ClaimPaths, new_path \in ClaimPaths :
    LET r == wasi_path_rename(World, fd, old_path, new_fd, new_path)
    IN  (RenameFailed(r) /\ r.unlinked # NoInode) =>
          SameEnumeration(inodes, r.w.inodes, PlaceOf(World, fd, old_path).dir)

\* The children of the directory with the one named name taken out and
\* put last.
PutLast(children, name) ==
  SelectSeq(children, LAMBDA c : c[1] # name)
    \o SelectSeq(children, LAMBDA c : c[1] = name)

\* What holds: after a path_rename that returned an error the source
\* directory enumerates the same entries, the one named by the source path
\* last.
FailedRenamePutsTheEntryLast ==
  \A fd \in FdNumbers, new_fd \in FdNumbers,
     old_path \in ClaimPaths, new_path \in ClaimPaths :
    LET r == wasi_path_rename(World, fd, old_path, new_fd, new_path)
    IN  (RenameFailed(r) /\ r.unlinked # NoInode) =>
          Children(r.w.inodes, PlaceOf(World, fd, old_path).dir)
            = PutLast(Children(inodes, PlaceOf(World, fd, old_path).dir),
                      PlaceOf(World, fd, old_path).name)

\* The root holds the directory a and then the file b; a path_rename of a
\* onto b fails with ERRNO_NOTDIR and then the root enumerates b before a.
FailedRenameReordered ==
  /\ NamesIn(inodes, RootIno) = << <<"a">>, <<"b">> >>
  /\ wasi_path_rename(World, 3, <<"a">>, 3, <<"b">>).ret = ERRNO_NOTDIR
  /\ NamesIn(wasi_path_rename(World, 3, <<"a">>, 3, <<"b">>).w.inodes, RootIno)
       = << <<"b">>, <<"a">> >>

====
